---- MODULE Spec2Model ----
(***************************************************************************)
(* Model of the audio-transcriber chunking-and-reassembly engine:          *)
(*   - audioChunker.ts        (chunkAudioFile, createAudioChunks,          *)
(*                             audioBufferToBlob)                          *)
(*   - chunkedTranscription.ts (transcribeAudioInChunks)                   *)
(*   - transcription.ts       (transcribeAudio, transcribeAudioLocally,    *)
(*                             transcribeAudioLocallyInChunks)             *)
(*                                                                         *)
(* Time is counted in ticks of 1/TicksPerSecond seconds, so that source    *)
(* durations and options that are not whole seconds occur and the          *)
(* Math.floor calls of the code are not the identity.  Text is a sequence  *)
(* of one-character strings.                                               *)
(*                                                                         *)
(* The exporters and the time formatters are run on their own               *)
(* (SpecExport, SpecFormat); there a time is a whole number of              *)
(* milliseconds, standing for the double nearest to that many thousandths   *)
(* of a second.                                                             *)
(***************************************************************************)
EXTENDS Integers, Sequences, FiniteSets, TLC

VARIABLES
    file,          \* the input File: what reading and decoding it will yield
    options,       \* ChunkingOptions passed to chunkAudioFile
    chunkerPc,     \* position inside chunkAudioFile / createAudioChunks
    audioContext,  \* "open" | "closed": the AudioContext of chunkAudioFile
    chunkDuration, \* createAudioChunks: let chunkDuration (ticks)
    currentTime,   \* createAudioChunks: let currentTime (ticks)
    chunks,        \* createAudioChunks: const chunks: AudioChunk[]
    chunkError,    \* the rejection reason of chunkAudioFile, or NoError
    pc,            \* position inside transcribeAudioInChunks
    i,             \* transcribeAudioInChunks: loop index i
    retries,       \* transcribeAudioInChunks: let retries
    result,        \* transcribeAudioInChunks: let result (Null or a TranscriptionResult)
    chunkResults,  \* transcribeAudioInChunks: const chunkResults
    hasError,      \* transcribeAudioInChunks: let hasError
    active,        \* the backend request transcribeAudio is awaiting, or NoRequest
    stale,         \* backend requests abandoned by a timeout and not yet completed
    outcome,       \* the ChunkedTranscriptionResult returned, or Null
    progress,      \* the events passed to onProgress so far, in order
    pauses,        \* the 500 ms delays between chunks started so far
    apiKey,        \* the apiKey argument: NoKey, or a key the backend accepts or rejects
    mode,          \* transcriptionOptions?.mode: NoMode | "openai" | "local" | "auto"
    transcribedChunks, \* transcribeAudioLocallyInChunks: const transcribedChunks
    seconds,       \* the argument of the time formatters (milliseconds)
    exported,      \* what an exporter or a time formatter returned, or NoExport
    fileName,      \* the fileName argument of generateTranscriptFile
    now,           \* the reading of the clock (new Date()) at the next export
    earlier,       \* what the export before the last one returned, or NoExport
    page,          \* the page: position in handleFileAccepted, its apiKey and error
    converter,     \* extractAudioFromVideo: its position, its promise, what it found
    homePage,      \* the Home component: its state flags and its handleFileAccepted runs
    transcriber,   \* YouTubeTranscriber: its fields and the locals of processYouTubeUrl
    disk,          \* the paths that exist under the working directory
    collector,     \* collectVideoUrls: its locals, its options and the feed it reads
    splitter,      \* transcribe-chunked.js: the locals of transcribeInChunks
    session        \* tiktok-collect-urls.js: the locals of main and its browser context

vars == <<file, options, chunkerPc, audioContext, chunkDuration, currentTime,
          chunks, chunkError, pc, i, retries, result, chunkResults, hasError,
          active, stale, outcome, progress, pauses, apiKey, mode, transcribedChunks,
          seconds, exported, fileName, now, earlier, page, converter, homePage,
          transcriber, disk, collector, splitter, session>>

chunkerVars == <<file, options, chunkerPc, audioContext, chunkDuration,
                 currentTime, chunks, chunkError>>

runVars == <<pc, i, retries, result, chunkResults, hasError, active, stale,
             outcome, progress, pauses>>

callVars == <<apiKey, mode>>

exportVars == <<seconds, exported, fileName, now, earlier>>

pageVars == <<page, converter, homePage>>

scriptVars == <<splitter, session>>

cliVars == <<transcriber, disk, collector, scriptVars>>

toolVars == <<pageVars, cliVars>>

otherVars == <<callVars, transcribedChunks, exportVars, toolVars>>

----------------------------------------------------------------------------
(* Bounds of the model *)

TicksPerSecond == 2
MaxSampleRate == 2
MaxChannels == 2
MaxDurationTicks == 22
MinChunkTicks == 8
MaxChunkTicks == 13
MaxOverlapTicks == 3
MinChunkBytes == 50
MaxChunkBytes == 90
MaxRunChunks == 4
MaxExportChunks == 3
MaxFormatMillis == 2500
MaxExports == 2
MaxMediaSeconds == 2
MaxCaptured == 2
MaxFeedVideos == 3
MaxScrollCount == 4
MaxRuns == 2
MaxSplitChunks == 3
MaxLoginArg == 3

(* Constants of the program *)

wavHeaderSize == 44
MinChunkSeconds == 5
DefaultMaxChunkSize == 20971520
maxRetries == 2
whisperLimitMB == 25

Null == "null"
NoError == "none"
NoKey == ""
ValidKey == "sk-valid"
InvalidKey == "sk-invalid"
NoMode == "undefined"
NoRequest == [chunk |-> -1, attempt |-> -1]
NoExport == [format |-> "none"]

\* a media duration that was not read yet
UnknownDuration == [kind |-> "unknown", value |-> 0]

\* extractAudioFromVideo was not called
NoConversion ==
    [pc |-> "idle", settled |-> "pending", error |-> NoError,
     videoDuration |-> UnknownDuration, audioChunks |-> 0,
     audioDuration |-> UnknownDuration, testTimer |-> FALSE]

\* the Home component as first rendered, without a key
NoRuns ==
    [apiKey |-> NoKey, isProcessing |-> FALSE, isConverting |-> FALSE,
     isChunkedProcessing |-> FALSE, error |-> <<>>, runs |-> <<>>]

\* no file was given to the page
PageAtRest ==
    /\ page = [pc |-> "idle", type |-> "audio", large |-> FALSE, apiKey |-> NoKey,
               error |-> <<>>]
    /\ converter = NoConversion
    /\ homePage = NoRuns

\* an absent option or value (undefined)
Undefined == -1

\* NaN, the value of Number.parseInt for a text that starts with no digit
NotANumber == -2

\* no path
NoPath == <<>>

\* YouTubeTranscriber was not constructed
NoTranscriber ==
    [pc |-> "idle", openaiApiKey |-> NoKey, videoId |-> <<>>, title |-> <<>>,
     audioSize |-> 0, videoResultDir |-> NoPath, downloadsDir |-> NoPath,
     audioFile |-> NoPath, cwd |-> NoPath, requests |-> 0, written |-> {},
     error |-> NoError]

\* collectVideoUrls was not called
NoCollector ==
    [pc |-> "idle", collected |-> <<>>, scrollCount |-> 0, stagnationCounter |-> 0,
     noGrowthCounter |-> 0, lastScrollHeight |-> 0, sizeBefore |-> 0,
     maxVideos |-> Undefined, targetCount |-> Undefined, maxScrolls |-> Undefined,
     idleLimit |-> 1, loaded |-> 0, moves |-> 0]

\* transcribeInChunks was not called
NoSplitter ==
    [pc |-> "idle", totalDuration |-> 0, numChunks |-> 0, i |-> 0, chunks |-> <<>>,
     transcriptions |-> <<>>, responses |-> <<>>]

\* main of the collector was not called
NoSession ==
    [pc |-> "idle", loginRequested |-> FALSE, maxLoginAttempts |-> 0, attempt |-> 0,
     loginOutcome |-> [success |-> FALSE, reason |-> "not_attempted"],
     waits |-> 0, context |-> "none", shouldClose |-> FALSE, browser |-> "none",
     exitCode |-> 0, collecting |-> FALSE, written |-> FALSE]

ScriptsAtRest ==
    /\ splitter = NoSplitter
    /\ session = NoSession

\* the command-line tools are not in use
CliAtRest ==
    /\ transcriber = NoTranscriber
    /\ disk = {}
    /\ collector = NoCollector
    /\ ScriptsAtRest

\* the page and the command-line tools are not in use
ToolsAtRest == PageAtRest /\ CliAtRest

Min(a, b) == IF a <= b THEN a ELSE b
Max(a, b) == IF a >= b THEN a ELSE b

\* Math.floor(a / b) for b > 0
Floor(a, b) == a \div b

----------------------------------------------------------------------------
(* audioChunker.ts : createAudioChunks, the size arithmetic *)

\* options.overlapSeconds || 0   (ticks; an absent option is 0)
Overlap(opts) == opts.overlapSeconds

\* options.maxChunkSize || 20 * 1024 * 1024   (0 and absent take the default)
MaxChunkSize(opts) ==
    IF opts.maxChunkSize = 0 THEN DefaultMaxChunkSize ELSE opts.maxChunkSize

\* sampleRate * numberOfChannels * 2
BytesPerSecond(buf) == buf.sampleRate * buf.numberOfChannels * 2

\* MaxDurationForSize with a plausible bug: the 5% safety margin is left out
MaxDurationForSizeNoMargin(buf, opts) ==
    Floor(100 * MaxChunkSize(opts) - 100 * wavHeaderSize, 100 * BytesPerSecond(buf))

\* Math.floor((maxChunkSize * 0.95 - wavHeaderSize) / bytesPerSecond), in seconds
MaxDurationForSize(buf, opts) ==
    Floor(95 * MaxChunkSize(opts) - 100 * wavHeaderSize, 100 * BytesPerSecond(buf))

\* Math.min(chunkDuration, maxDurationForSize), in ticks
SafeDuration(buf, opts) ==
    Min(opts.chunkDurationSeconds, MaxDurationForSize(buf, opts) * TicksPerSecond)

\* Math.max(5, safeDuration), in ticks
EffectiveDuration(buf, opts) ==
    Max(MinChunkSeconds * TicksPerSecond, SafeDuration(buf, opts))

\* EstimateExceeds with a plausible bug: the header is left out of the estimate
EstimateExceedsNoHeader(buf, opts, duration) ==
    duration * BytesPerSecond(buf) > MaxChunkSize(opts) * TicksPerSecond

\* estimatedSize > maxChunkSize, both sides multiplied by TicksPerSecond
\* (estimatedSize = chunkDuration * bytesPerSecond + wavHeaderSize)
EstimateExceeds(buf, opts, duration) ==
    duration * BytesPerSecond(buf) + wavHeaderSize * TicksPerSecond
        > MaxChunkSize(opts) * TicksPerSecond

\* Math.floor(time * sampleRate)
SampleAt(buf, time) == Floor(time * buf.sampleRate, TicksPerSecond)

\* audioBufferToBlob: new ArrayBuffer(44 + length * numberOfChannels * 2)
BlobSize(length, numberOfChannels) == wavHeaderSize + length * numberOfChannels * 2

\* WalkStart with a plausible bug: the overlap is added, not subtracted
WalkStartAhead(opts, t) == Max(0, t + Overlap(opts))

\* WalkStart with a plausible bug: the start is not clamped to 0
WalkStartUnclamped(opts, t) == t - Overlap(opts)

\* the local startTime of one loop iteration
WalkStart(opts, t) == Max(0, t - Overlap(opts))

\* WalkEnd with a plausible bug: the end is not clamped to the source duration
WalkEndPadded(buf, t, duration) == t + duration

\* the local endTime of one loop iteration
WalkEnd(buf, t, duration) == Min(buf.duration, t + duration)

\* ReportedStart with a plausible bug: the overlap is subtracted without the clamp
ReportedStartUnclamped(opts, t) == t - Overlap(opts)

\* the startTime stored in the pushed chunk
ReportedStart(opts, t) == t

\* the AudioChunk pushed by one iteration of the while loop at cursor t
MakeChunk(buf, opts, t, duration, index) ==
    LET startTime == WalkStart(opts, t)
        endTime == WalkEnd(buf, t, duration)
        startSample == SampleAt(buf, startTime)
        endSample == SampleAt(buf, endTime)
        frameCount == endSample - startSample
    IN  [blob |-> [size |-> BlobSize(frameCount, buf.numberOfChannels),
                   firstSample |-> startSample,
                   frameCount |-> frameCount],
         startTime |-> ReportedStart(opts, t),
         endTime |-> endTime,
         index |-> index]

----------------------------------------------------------------------------
(* Inputs *)

\* A decoded AudioBuffer: duration = length / sampleRate, so duration * sampleRate
\* is a whole number of samples.
AudioBuffers ==
    {buf \in [sampleRate : 1..MaxSampleRate, numberOfChannels : 1..MaxChannels,
              duration : 0..MaxDurationTicks] :
        (buf.duration * buf.sampleRate) % TicksPerSecond = 0}

ChunkingOptions ==
    {[chunkDurationSeconds |-> cd, overlapSeconds |-> ov, maxChunkSize |-> m] :
        cd \in MinChunkTicks..MaxChunkTicks, ov \in 0..MaxOverlapTicks,
        m \in {0} \cup (MinChunkBytes..MaxChunkBytes)}

\* The concrete scenarios of the specification: 16 kHz mono, 130 s, 120 s
\* chunks with 5 s overlap under a budget that 120 s fits.
ScenarioBuffer ==
    [sampleRate |-> 16000, numberOfChannels |-> 1, duration |-> 130 * TicksPerSecond]

ScenarioOptions ==
    [chunkDurationSeconds |-> 120 * TicksPerSecond,
     overlapSeconds |-> 5 * TicksPerSecond,
     maxChunkSize |-> 4200000]

File(buf) == [readable |-> TRUE, decodable |-> TRUE, audio |-> buf]

----------------------------------------------------------------------------
(* audioChunker.ts : chunkAudioFile and createAudioChunks *)

\* fileReader.onerror: the promise is rejected
ReadError ==
    /\ chunkerPc = "reading"
    /\ ~file.readable
    /\ chunkerPc' = "rejected"
    /\ chunkError' = "Failed to read audio file"
    /\ UNCHANGED <<file, options, audioContext, chunkDuration, currentTime, chunks>>
    /\ UNCHANGED <<runVars, otherVars>>

\* fileReader.onload: decodeAudioData is awaited
FileLoaded ==
    /\ chunkerPc = "reading"
    /\ file.readable
    /\ chunkerPc' = "decoding"
    /\ UNCHANGED <<file, options, audioContext, chunkDuration, currentTime, chunks,
                   chunkError>>
    /\ UNCHANGED <<runVars, otherVars>>

\* decodeAudioData rejects: the catch block awaits audioContext.close()
DecodeFails ==
    /\ chunkerPc = "decoding"
    /\ ~file.decodable
    /\ chunkerPc' = "closing"
    /\ chunkError' = "Failed to process audio file: decode"
    /\ UNCHANGED <<file, options, audioContext, chunkDuration, currentTime, chunks>>
    /\ UNCHANGED <<runVars, otherVars>>

\* decodeAudioData resolves and createAudioChunks starts: the size arithmetic
\* and the check that throws
CreateAudioChunks ==
    /\ chunkerPc = "decoding"
    /\ file.decodable
    /\ chunkDuration' = EffectiveDuration(file.audio, options)
    /\ IF EstimateExceeds(file.audio, options, chunkDuration')
         THEN /\ chunkerPc' = "closing"
              /\ chunkError' = "Failed to process audio file: Chunk size calculation error"
         ELSE /\ chunkerPc' = "walking"
              /\ chunkError' = chunkError
    /\ currentTime' = 0
    /\ chunks' = <<>>
    /\ UNCHANGED <<file, options, audioContext>>
    /\ UNCHANGED <<runVars, otherVars>>

\* ChunkLoopStep with another policy: a blob over the limit is thrown as an
\* error instead of being warned about
ChunkLoopStepThrowsOversize ==
    /\ chunkerPc = "walking"
    /\ currentTime < file.audio.duration
    /\ LET chunk == MakeChunk(file.audio, options, currentTime, chunkDuration, Len(chunks))
       IN  IF chunk.blob.size > MaxChunkSize(options)
             THEN /\ chunkerPc' = "closing"
                  /\ chunkError' = "Failed to process audio file: chunk exceeds limit"
                  /\ UNCHANGED <<chunks, currentTime>>
             ELSE /\ chunks' = Append(chunks, chunk)
                  /\ currentTime' = currentTime + chunkDuration
                  /\ UNCHANGED <<chunkerPc, chunkError>>
    /\ UNCHANGED <<file, options, audioContext, chunkDuration>>
    /\ UNCHANGED <<runVars, otherVars>>

\* ChunkLoopStep with a plausible bug: the cursor advances by the duration less
\* the overlap
ChunkLoopStepBacksUp ==
    /\ chunkerPc = "walking"
    /\ currentTime < file.audio.duration
    /\ chunks' = Append(chunks,
                    MakeChunk(file.audio, options, currentTime, chunkDuration, Len(chunks)))
    /\ currentTime' = currentTime + chunkDuration - Overlap(options)
    /\ UNCHANGED <<file, options, chunkerPc, audioContext, chunkDuration, chunkError>>
    /\ UNCHANGED <<runVars, otherVars>>

\* one iteration of while (currentTime < totalDuration)
ChunkLoopStep ==
    /\ chunkerPc = "walking"
    /\ currentTime < file.audio.duration
    /\ chunks' = Append(chunks,
                    MakeChunk(file.audio, options, currentTime, chunkDuration, Len(chunks)))
    /\ currentTime' = currentTime + chunkDuration
    /\ UNCHANGED <<file, options, chunkerPc, audioContext, chunkDuration, chunkError>>
    /\ UNCHANGED <<runVars, otherVars>>

\* ChunkLoopExit with a plausible variant: an empty list is thrown as an error
ChunkLoopExitRejectsEmpty ==
    /\ chunkerPc = "walking"
    /\ ~(currentTime < file.audio.duration)
    /\ chunkerPc' = "closing"
    /\ chunkError' = IF chunks = <<>> THEN "Failed to process audio file: empty"
                                      ELSE chunkError
    /\ UNCHANGED <<file, options, audioContext, chunkDuration, currentTime, chunks>>
    /\ UNCHANGED <<runVars, otherVars>>

\* the loop ends, createAudioChunks returns, audioContext.close() is awaited
ChunkLoopExit ==
    /\ chunkerPc = "walking"
    /\ ~(currentTime < file.audio.duration)
    /\ chunkerPc' = "closing"
    /\ UNCHANGED <<file, options, audioContext, chunkDuration, currentTime, chunks,
                   chunkError>>
    /\ UNCHANGED <<runVars, otherVars>>

\* audioContext.close() settles; resolve(chunks) or reject(...)
ContextClosed ==
    /\ chunkerPc = "closing"
    /\ audioContext' = "closed"
    /\ chunkerPc' = IF chunkError = NoError THEN "resolved" ELSE "rejected"
    /\ UNCHANGED <<file, options, chunkDuration, currentTime, chunks, chunkError>>
    /\ UNCHANGED <<runVars, otherVars>>

\* createAudioChunks applied to every decoded buffer and option set of the bounds
InitChunker ==
    /\ \E buf \in AudioBuffers \cup {ScenarioBuffer} : file = File(buf)
    /\ options \in ChunkingOptions \cup {ScenarioOptions}
    /\ chunkerPc = "decoding"
    /\ audioContext = "open"
    /\ chunkDuration = 0
    /\ currentTime = 0
    /\ chunks = <<>>
    /\ chunkError = NoError
    /\ pc = "chunking"
    /\ i = 0
    /\ retries = 0
    /\ result = Null
    /\ chunkResults = <<>>
    /\ hasError = FALSE
    /\ active = NoRequest
    /\ stale = 0
    /\ outcome = Null
    /\ progress = <<>>
    /\ pauses = 0
    /\ apiKey = ValidKey
    /\ mode = NoMode
    /\ transcribedChunks = <<>>
    /\ seconds = 0
    /\ exported = NoExport
    /\ fileName = <<>>
    /\ now = 0
    /\ earlier = NoExport
    /\ ToolsAtRest

NextChunker ==
    \/ CreateAudioChunks
    \/ ChunkLoopStep
    \/ ChunkLoopExit
    \/ ContextClosed

SpecChunker == InitChunker /\ [][NextChunker]_vars

\* createAudioChunks is one synchronous call and the close that follows it is
\* awaited: a step that can be taken is taken
SpecChunkerLive == SpecChunker /\ WF_vars(NextChunker)

----------------------------------------------------------------------------
(* transcription.ts : transcribeAudio, and the texts and errors of the backend *)

\* what the backend may answer for a segment
Texts == {<<"a">>, <<" ", "b", " ">>, <<" ">>}

TimeoutMessage == "Transcription request timed out after 60 seconds"
BackendMessage == "Connection error."
AuthMessage == "401 Incorrect API key provided"

Keys == {NoKey, ValidKey, InvalidKey}
Modes == {NoMode, "openai", "local", "auto"}

\* the truthiness of the apiKey argument
HasKey(key) == key # NoKey

\* the message of the error the backend request rejects with: a key the backend
\* does not accept is answered 401
BackendError(key) == IF key = InvalidKey THEN AuthMessage ELSE BackendMessage

\* TranscribeAudioRoute with a plausible bug: an explicit mode 'openai' is
\* honoured without a key
TranscribeAudioRouteTrustsMode(key, m) ==
    IF m = "openai" THEN "remote"
    ELSE IF m = "local" \/ ~HasKey(key) THEN "local"
    ELSE "remote"

\* the branch transcribeAudio takes: "local" (transcribeAudioLocal) or "remote"
TranscribeAudioRoute(key, m) ==
    LET effective == IF m # NoMode THEN m
                     ELSE IF HasKey(key) THEN "openai" ELSE "local"
    IN  IF effective = "openai" /\ ~HasKey(key) THEN "local"
        ELSE IF effective = "local" \/ ~HasKey(key) THEN "local"
        ELSE "remote"

DigitChars == <<"0", "1", "2", "3", "4", "5", "6", "7", "8", "9">>

\* Number.prototype.toString of a natural number
RECURSIVE NumberToString(_)
NumberToString(n) ==
    IF n < 10 THEN <<DigitChars[n + 1]>>
    ELSE NumberToString(n \div 10) \o <<DigitChars[(n % 10) + 1]>>

\* (ticks / TicksPerSecond).toFixed(1)
ToFixed1(ticks) ==
    LET tenths == (20 * ticks + TicksPerSecond) \div (2 * TicksPerSecond)
    IN  NumberToString(tenths \div 10) \o <<".">> \o NumberToString(tenths % 10)

\* the text transcribeAudioLocal returns (the advice that follows is left out)
SimulatedText == <<"This is a simulated transcription for your audio file">>

\* the placeholder text of one chunk
ChunkText(chunk) ==
    <<"Simulated transcription for chunk ">> \o NumberToString(chunk.index + 1)
        \o <<" (">> \o ToFixed1(chunk.startTime) \o <<"s - ">>
        \o ToFixed1(chunk.endTime) \o <<"s)">>

\* the entry pushed to transcribedChunks for one chunk
TranscribedChunk(chunk) ==
    [text |-> ChunkText(chunk),
     timestamp |-> <<chunk.startTime, chunk.endTime>>,
     index |-> chunk.index]

\* transcribedChunks.map(chunk => `\u2022 ${chunk.text}`).join('\n')
RECURSIVE BulletLines(_)
BulletLines(transcribed) ==
    IF transcribed = <<>> THEN <<>>
    ELSE IF Len(transcribed) = 1 THEN <<"* ">> \o transcribed[1].text
    ELSE <<"* ">> \o transcribed[1].text \o <<"\n">> \o BulletLines(Tail(transcribed))

\* the text transcribeAudioLocallyInChunks returns: a banner that names the
\* number of chunks (its advice is left out), then one bullet line per chunk
LocalFullText(transcribed, list) ==
    <<"This is a simulated transcription for your large audio file split into ">>
        \o NumberToString(Len(list)) \o <<" chunks.">> \o <<"\n">> \o BulletLines(transcribed)

\* the LocalTranscriptionResult of transcribeAudioLocallyInChunks
LocalResult(transcribed, list) ==
    [text |-> LocalFullText(transcribed, list),
     chunks |-> [k \in 1..Len(transcribed) |->
                    [text |-> transcribed[k].text,
                     timestamp |-> transcribed[k].timestamp]],
     error |-> NoError]

\* return { text: response.text }
SuccessResult(text) == [text |-> text, error |-> NoError]

\* catch (error): return { text: '', error: error.message }
ErrorResult(message) == [text |-> <<>>, error |-> message]

----------------------------------------------------------------------------
(* chunkedTranscription.ts : transcribeAudioInChunks, pure parts *)

RECURSIVE TrimStart(_)
TrimStart(text) ==
    IF text # <<>> /\ Head(text) = " " THEN TrimStart(Tail(text)) ELSE text

RECURSIVE TrimEnd(_)
TrimEnd(text) ==
    IF text # <<>> /\ text[Len(text)] = " "
      THEN TrimEnd(SubSeq(text, 1, Len(text) - 1))
      ELSE text

\* Trim with a plausible bug: trailing white space is kept
TrimStartOnly(text) == TrimStart(text)

\* String.prototype.trim
Trim(text) == TrimEnd(TrimStart(text))

\* insertion of one result into a list sorted by chunkIndex, after its equals
RECURSIVE InsertByIndex(_, _)
InsertByIndex(sorted, r) ==
    IF sorted = <<>> THEN <<r>>
    ELSE IF r.chunkIndex < Head(sorted).chunkIndex THEN <<r>> \o sorted
    ELSE <<Head(sorted)>> \o InsertByIndex(Tail(sorted), r)

\* .sort((a, b) => a.chunkIndex - b.chunkIndex)   (a stable sort)
RECURSIVE SortByChunkIndex(_)
SortByChunkIndex(seq) ==
    IF seq = <<>> THEN <<>>
    ELSE InsertByIndex(SortByChunkIndex(SubSeq(seq, 1, Len(seq) - 1)), seq[Len(seq)])

\* .join(' ')
RECURSIVE Join(_)
Join(texts) ==
    IF texts = <<>> THEN <<>>
    ELSE IF Len(texts) = 1 THEN texts[1]
    ELSE texts[1] \o <<" ">> \o Join(Tail(texts))

NoChunkError(r) == r.error = NoError
NonEmpty(text) == Len(text) > 0

\* chunkResults.filter(chunk => !chunk.error).sort(...).map(chunk => chunk.text.trim())
\*     .filter(text => text.length > 0).join(' ')
FullText(results) ==
    LET successfulChunks == SelectSeq(results, NoChunkError)
        sorted == SortByChunkIndex(successfulChunks)
        trimmed == [k \in 1..Len(sorted) |-> Trim(sorted[k].text)]
    IN  Join(SelectSeq(trimmed, NonEmpty))

\* Math.max(...chunks.map(c => c.endTime)), for a list that is not empty
TotalDuration(list) ==
    CHOOSE m \in {list[k].endTime : k \in 1..Len(list)} :
        \A k \in 1..Len(list) : list[k].endTime <= m

\* ChunkResult with a plausible bug: the one-based chunk number as chunkIndex
ChunkResultOneBased(chunk, res) ==
    [chunkIndex |-> chunk.index + 1,
     startTime |-> chunk.startTime,
     endTime |-> chunk.endTime,
     text |-> IF res.error # NoError THEN <<>> ELSE res.text,
     error |-> res.error]

\* the ChunkTranscriptionResult pushed for a chunk whose retry loop ended with res
ChunkResult(chunk, res) ==
    [chunkIndex |-> chunk.index,
     startTime |-> chunk.startTime,
     endTime |-> chunk.endTime,
     text |-> IF res.error # NoError THEN <<>> ELSE res.text,
     error |-> res.error]

\* RetryAllowed with a plausible bug: one retry too many
RetryAllowedOffByOne(count) == count <= maxRetries + 1

\* while (retries <= maxRetries) after a failed attempt and retries++
RetryAllowed(count) == count <= maxRetries

\* PacingFollows with a plausible bug: the delay follows the last chunk too
PacingFollowsAlways(index, list) == index < Len(list)

\* if (i < chunks.length - 1): the pacing delay follows
PacingFollows(index, list) == index < Len(list) - 1

\* Outcome with a plausible bug: the aggregate error reflects the last result only
OutcomeLastResultOnly(results, list, failed) ==
    [fullText |-> FullText(results),
     chunks |-> results,
     totalDuration |-> TotalDuration(list),
     error |-> IF results # <<>> /\ results[Len(results)].error # NoError
                 THEN "Some chunks failed to transcribe" ELSE NoError]

\* the value returned after the loop
Outcome(results, list, failed) ==
    [fullText |-> FullText(results),
     chunks |-> results,
     totalDuration |-> TotalDuration(list),
     error |-> IF failed THEN "Some chunks failed to transcribe" ELSE NoError]

\* FailedOutcome with a plausible bug: the error message is not passed on
FailedOutcomeNoError(message) ==
    [fullText |-> <<>>, chunks |-> <<>>, totalDuration |-> 0, error |-> NoError]

\* the value returned by the outer catch block
FailedOutcome(message) ==
    [fullText |-> <<>>, chunks |-> <<>>, totalDuration |-> 0, error |-> message]

\* const useLocal = !apiKey || transcriptionOptions?.mode === 'local'
UseLocal(key, m) == ~HasKey(key) \/ m = "local"

\* the value the local branch returns: .then(result => ...)
LocalOutcome(localResult, list) ==
    [fullText |-> localResult.text,
     chunks |-> [k \in 1..Len(localResult.chunks) |->
                    [chunkIndex |-> k - 1,
                     startTime |-> localResult.chunks[k].timestamp[1],
                     endTime |-> localResult.chunks[k].timestamp[2],
                     text |-> localResult.chunks[k].text,
                     error |-> NoError]],
     totalDuration |-> TotalDuration(list),
     error |-> localResult.error]

----------------------------------------------------------------------------
(* chunkedTranscription.ts : transcribeAudioInChunks *)

\* ChunkProgress with a plausible bug: currentChunk is the loop index
ChunkProgressZeroBased(k, list, results) ==
    [currentChunk |-> k, totalChunks |-> Len(list), isComplete |-> FALSE,
     error |-> NoError, chunks |-> results, currentText |-> <<>>]

\* the event passed to onProgress at the top of loop iteration k; currentText,
\* which the remote loop never sets, is the sequence of at most one text
ChunkProgress(k, list, results) ==
    [currentChunk |-> k + 1, totalChunks |-> Len(list), isComplete |-> FALSE,
     error |-> NoError, chunks |-> results, currentText |-> <<>>]

\* the final progress update after the loop
FinalProgress(list, results) ==
    [currentChunk |-> Len(list), totalChunks |-> Len(list), isComplete |-> TRUE,
     error |-> NoError, chunks |-> results, currentText |-> <<>>]

\* the event of the outer catch block
FailedProgress(message) ==
    [currentChunk |-> 0, totalChunks |-> 0, isComplete |-> TRUE,
     error |-> message, chunks |-> <<>>, currentText |-> <<>>]

\* the event the local branch makes of onProgress(current, total, chunkText)
LocalProgress(current, total, chunkText) ==
    [currentChunk |-> current, totalChunks |-> total,
     isComplete |-> (current = total), error |-> NoError, chunks |-> <<>>,
     currentText |-> chunkText]

\* the top of one loop iteration up to the await of transcribeAudio, which has
\* taken its remote branch (the loop runs only with a key and a mode other than
\* 'local') and issued its backend request
BeginChunk(k) ==
    /\ TranscribeAudioRoute(apiKey, mode) = "remote"
    /\ i' = k
    /\ retries' = 0
    /\ result' = Null
    /\ active' = [chunk |-> chunks[k + 1].index, attempt |-> 0]
    /\ progress' = Append(progress, ChunkProgress(k, chunks, chunkResults))
    /\ pc' = "awaiting"

\* the chunk's result is pushed; the pacing delay or the end of the run follows
Record(res, count) ==
    LET pushed == Append(chunkResults, ChunkResult(chunks[i + 1], res))
        failed == hasError \/ res.error # NoError
    IN  /\ chunkResults' = pushed
        /\ hasError' = failed
        /\ retries' = count
        /\ result' = res
        /\ IF PacingFollows(i, chunks)
             THEN /\ pc' = "pacing"
                  /\ outcome' = outcome
                  /\ progress' = progress
                  /\ pauses' = pauses + 1
             ELSE /\ pc' = "done"
                  /\ outcome' = Outcome(pushed, chunks, failed)
                  /\ progress' = Append(progress, FinalProgress(chunks, pushed))
                  /\ pauses' = pauses

\* AttemptReturned with a plausible bug: a segment that exhausted its retries is
\* skipped without a result being pushed
AttemptReturnedDropsFailure(res) ==
    /\ active' = NoRequest
    /\ i' = i
    /\ IF res.error = NoError
         THEN Record(res, retries)
         ELSE IF RetryAllowed(retries + 1)
                THEN /\ retries' = retries + 1
                     /\ result' = res
                     /\ pc' = "backoff"
                     /\ UNCHANGED <<chunkResults, hasError, outcome, progress, pauses>>
                ELSE /\ retries' = retries + 1
                     /\ result' = res
                     /\ hasError' = TRUE
                     /\ chunkResults' = chunkResults
                     /\ IF PacingFollows(i, chunks)
                          THEN /\ pc' = "pacing"
                               /\ outcome' = outcome
                               /\ progress' = progress
                               /\ pauses' = pauses + 1
                          ELSE /\ pc' = "done"
                               /\ outcome' = Outcome(chunkResults, chunks, TRUE)
                               /\ progress' = Append(progress,
                                                FinalProgress(chunks, chunkResults))
                               /\ pauses' = pauses

\* AttemptReturned with a plausible bug: a segment that exhausted its retries
\* aborts the run through the outer catch block
AttemptReturnedAborts(res) ==
    /\ active' = NoRequest
    /\ i' = i
    /\ IF res.error = NoError
         THEN Record(res, retries)
         ELSE IF RetryAllowed(retries + 1)
                THEN /\ retries' = retries + 1
                     /\ result' = res
                     /\ pc' = "backoff"
                     /\ UNCHANGED <<chunkResults, hasError, outcome, progress, pauses>>
                ELSE /\ retries' = retries + 1
                     /\ result' = res
                     /\ hasError' = TRUE
                     /\ chunkResults' = chunkResults
                     /\ pc' = "failed"
                     /\ outcome' = FailedOutcome(res.error)
                     /\ progress' = Append(progress, FailedProgress(res.error))
                     /\ pauses' = pauses

\* AttemptReturned with another policy: an authentication error ends the retry
\* loop at once
AttemptReturnedAbortsOnAuth(res) ==
    /\ active' = NoRequest
    /\ i' = i
    /\ IF res.error = NoError
         THEN Record(res, retries)
         ELSE IF RetryAllowed(retries + 1) /\ res.error # AuthMessage
                THEN /\ retries' = retries + 1
                     /\ result' = res
                     /\ pc' = "backoff"
                     /\ UNCHANGED <<chunkResults, hasError, outcome, progress, pauses>>
                ELSE Record(res, retries + 1)

\* AttemptReturned with a plausible bug: the error of the first failed attempt
\* is kept when later attempts fail too
AttemptReturnedKeepsFirstError(res) ==
    /\ active' = NoRequest
    /\ i' = i
    /\ IF res.error = NoError
         THEN Record(res, retries)
         ELSE LET kept == IF retries = 0 THEN res ELSE result
              IN  IF RetryAllowed(retries + 1)
                    THEN /\ retries' = retries + 1
                         /\ result' = kept
                         /\ pc' = "backoff"
                         /\ UNCHANGED <<chunkResults, hasError, outcome, progress, pauses>>
                    ELSE Record(kept, retries + 1)

\* transcribeAudio returned res: the rest of the retry loop body
AttemptReturned(res) ==
    /\ active' = NoRequest
    /\ i' = i
    /\ IF res.error = NoError
         THEN Record(res, retries)
         ELSE IF RetryAllowed(retries + 1)
                THEN /\ retries' = retries + 1
                     /\ result' = res
                     /\ pc' = "backoff"
                     /\ UNCHANGED <<chunkResults, hasError, outcome, progress, pauses>>
                ELSE Record(res, retries + 1)

\* transcribeAudio returned res to the caller that awaits it directly
DirectReturned(res) ==
    /\ active' = NoRequest
    /\ result' = res
    /\ pc' = "returned"
    /\ UNCHANGED <<i, retries, chunkResults, hasError, outcome, progress, pauses>>

\* transcribeAudio returns res to whoever awaits it
TranscribeAudioReturns(res) ==
    IF pc = "awaiting" THEN AttemptReturned(res) ELSE DirectReturned(res)

\* chunkAudioFile resolved: no chunks is an error; else the local branch starts
\* transcribeAudioLocallyInChunks, which waits for its first chunk, or the first
\* iteration of the remote loop starts
ChunksResolved ==
    /\ pc = "chunking"
    /\ chunkerPc = "resolved"
    /\ IF Len(chunks) = 0
         THEN /\ pc' = "failed"
              /\ outcome' = FailedOutcome("No chunks were created from the audio file")
              /\ progress' = Append(progress,
                    FailedProgress("No chunks were created from the audio file"))
              /\ UNCHANGED <<i, retries, result, active>>
         ELSE IF UseLocal(apiKey, mode)
                THEN /\ pc' = "simulating"
                     /\ i' = 0
                     /\ progress' = Append(progress,
                                        LocalProgress(1, Len(chunks), <<>>))
                     /\ UNCHANGED <<retries, result, active, outcome>>
                ELSE /\ BeginChunk(0)
                     /\ outcome' = outcome
    /\ UNCHANGED <<chunkResults, hasError, stale, pauses>>
    /\ UNCHANGED <<chunkerVars, otherVars>>

\* chunkAudioFile rejected: the outer catch block
ChunksRejected ==
    /\ pc = "chunking"
    /\ chunkerPc = "rejected"
    /\ pc' = "failed"
    /\ outcome' = FailedOutcome(chunkError)
    /\ progress' = Append(progress, FailedProgress(chunkError))
    /\ UNCHANGED <<i, retries, result, chunkResults, hasError, active, stale, pauses>>
    /\ UNCHANGED <<chunkerVars, otherVars>>

\* the backend answers the awaited request with a text
BackendResponds ==
    /\ pc \in {"awaiting", "awaitingDirect"}
    /\ apiKey = ValidKey
    /\ \E text \in Texts : TranscribeAudioReturns(SuccessResult(text))
    /\ stale' = stale
    /\ UNCHANGED <<chunkerVars, otherVars>>

\* the backend request fails: transcribeAudio catches and returns the error
BackendFails ==
    /\ pc \in {"awaiting", "awaitingDirect"}
    /\ TranscribeAudioReturns(ErrorResult(BackendError(apiKey)))
    /\ stale' = stale
    /\ UNCHANGED <<chunkerVars, otherVars>>

\* the 60 s timer wins Promise.race: transcribeAudio returns the timeout error
\* and the backend request stays in flight
RequestTimesOut ==
    /\ pc \in {"awaiting", "awaitingDirect"}
    /\ TranscribeAudioReturns(ErrorResult(TimeoutMessage))
    /\ stale' = stale + 1
    /\ UNCHANGED <<chunkerVars, otherVars>>

\* StaleRequestCompletes with a plausible bug: the late response replaces the
\* result that was returned
StaleRequestCompletesOverwrites ==
    /\ stale > 0
    /\ stale' = stale - 1
    /\ result' = SuccessResult(<<"a">>)
    /\ UNCHANGED <<pc, i, retries, chunkResults, hasError, active, outcome,
                   progress, pauses>>
    /\ UNCHANGED <<chunkerVars, otherVars>>

\* a request abandoned by its timeout completes; nobody awaits it
StaleRequestCompletes ==
    /\ stale > 0
    /\ stale' = stale - 1
    /\ UNCHANGED <<pc, i, retries, result, chunkResults, hasError, active, outcome,
                   progress, pauses>>
    /\ UNCHANGED <<chunkerVars, otherVars>>

\* the 2 s wait before a retry is over: transcribeAudio is called again
BackoffElapsed ==
    /\ pc = "backoff"
    /\ TranscribeAudioRoute(apiKey, mode) = "remote"
    /\ active' = [chunk |-> chunks[i + 1].index, attempt |-> retries]
    /\ pc' = "awaiting"
    /\ UNCHANGED <<i, retries, result, chunkResults, hasError, stale, outcome,
                   progress, pauses>>
    /\ UNCHANGED <<chunkerVars, otherVars>>

\* the 500 ms delay between chunks is over: the next iteration starts
PacingElapsed ==
    /\ pc = "pacing"
    /\ BeginChunk(i + 1)
    /\ UNCHANGED <<chunkResults, hasError, stale, outcome, pauses>>
    /\ UNCHANGED <<chunkerVars, otherVars>>

\* transcribeAudioLocallyInChunks: the 500 ms of chunk i are over, its
\* placeholder is pushed and reported; the next chunk is announced and its wait
\* starts, or the function returns and the local branch maps its result to the
\* outcome
LocalChunkDone ==
    /\ pc = "simulating"
    /\ LET pushed == Append(transcribedChunks, TranscribedChunk(chunks[i + 1]))
           reported == Append(progress,
                           LocalProgress(i + 1, Len(chunks), <<ChunkText(chunks[i + 1])>>))
       IN  /\ transcribedChunks' = pushed
           /\ i' = i + 1
           /\ IF i + 1 < Len(chunks)
                THEN /\ pc' = "simulating"
                     /\ outcome' = outcome
                     /\ progress' = Append(reported,
                                        LocalProgress(i + 2, Len(chunks), <<>>))
                ELSE /\ pc' = "done"
                     /\ outcome' = LocalOutcome(LocalResult(pushed, chunks), chunks)
                     /\ progress' = reported
    /\ UNCHANGED <<retries, result, chunkResults, hasError, active, stale, pauses>>
    /\ UNCHANGED <<chunkerVars, callVars, exportVars, toolVars>>

\* transcribeAudio(file, apiKey, options) is called directly: it awaits the
\* backend request it issued, or transcribeAudioLocal
TranscribeAudioCalled ==
    /\ pc = "calling"
    /\ IF TranscribeAudioRoute(apiKey, mode) = "remote"
         THEN /\ active' = [chunk |-> -1, attempt |-> 0]
              /\ pc' = "awaitingDirect"
         ELSE /\ active' = active
              /\ pc' = "simulatingDirect"
    /\ UNCHANGED <<i, retries, result, chunkResults, hasError, stale, outcome,
                   progress, pauses>>
    /\ UNCHANGED <<chunkerVars, otherVars>>

\* transcribeAudioLocal: transcribeAudioLocally resolved with its simulated text
SimulationDone ==
    /\ pc = "simulatingDirect"
    /\ DirectReturned(SuccessResult(SimulatedText))
    /\ stale' = stale
    /\ UNCHANGED <<chunkerVars, otherVars>>

----------------------------------------------------------------------------
(* The whole run: transcribeAudioInChunks(file, apiKey, onProgress, options) *)

\* whole seconds of source that make 0..MaxRunChunks chunks of 5 s
RunSeconds ==
    {0} \cup {MinChunkSeconds * k - r : k \in 1..MaxRunChunks, r \in 0..1}

RunFiles ==
    {[readable |-> FALSE, decodable |-> FALSE,
      audio |-> [sampleRate |-> 1, numberOfChannels |-> 1, duration |-> 0]],
     [readable |-> TRUE, decodable |-> FALSE,
      audio |-> [sampleRate |-> 1, numberOfChannels |-> 1, duration |-> 0]]}
    \cup {File([sampleRate |-> 1, numberOfChannels |-> 1,
                duration |-> s * TicksPerSecond]) : s \in RunSeconds}

RunOptions ==
    {[chunkDurationSeconds |-> 6 * TicksPerSecond, overlapSeconds |-> ov,
      maxChunkSize |-> m] : ov \in {TicksPerSecond}, m \in {50, 54}}

\* the calls of transcribeAudioInChunks: every key and mode that take the local
\* branch, and the remote loop with a key the backend accepts or rejects; the
\* loop does not read the mode again, so 'openai' and 'auto' run on the sources
\* of at most one chunk
ChunkedCalls ==
    {call \in [entry : {"chunking"}, file : RunFiles, options : RunOptions,
               apiKey : Keys, mode : Modes] :
        (~UseLocal(call.apiKey, call.mode) /\ call.mode # NoMode) =>
            call.file.audio.duration <= MinChunkSeconds * TicksPerSecond}

\* the direct calls of transcribeAudio, which takes no chunking options
DirectCalls ==
    [entry : {"calling"}, file : RunFiles,
     options : {CHOOSE o \in RunOptions : TRUE}, apiKey : Keys, mode : Modes]

RunCalls == ChunkedCalls \cup DirectCalls

Init ==
    /\ \E call \in RunCalls :
          /\ pc = call.entry
          /\ file = call.file
          /\ options = call.options
          /\ apiKey = call.apiKey
          /\ mode = call.mode
    /\ chunkerPc = IF pc = "chunking" THEN "reading" ELSE "idle"
    /\ audioContext = "open"
    /\ chunkDuration = 0
    /\ currentTime = 0
    /\ chunks = <<>>
    /\ chunkError = NoError
    /\ transcribedChunks = <<>>
    /\ seconds = 0
    /\ exported = NoExport
    /\ fileName = <<>>
    /\ now = 0
    /\ earlier = NoExport
    /\ ToolsAtRest
    /\ i = 0
    /\ retries = 0
    /\ result = Null
    /\ chunkResults = <<>>
    /\ hasError = FALSE
    /\ active = NoRequest
    /\ stale = 0
    /\ outcome = Null
    /\ progress = <<>>
    /\ pauses = 0

Next ==
    \/ ReadError
    \/ FileLoaded
    \/ DecodeFails
    \/ CreateAudioChunks
    \/ ChunkLoopStep
    \/ ChunkLoopExit
    \/ ContextClosed
    \/ ChunksResolved
    \/ ChunksRejected
    \/ BackendResponds
    \/ BackendFails
    \/ RequestTimesOut
    \/ StaleRequestCompletes
    \/ BackoffElapsed
    \/ PacingElapsed
    \/ LocalChunkDone
    \/ TranscribeAudioCalled
    \/ SimulationDone

Spec == Init /\ [][Next]_vars

----------------------------------------------------------------------------
(* chunkedTranscription.ts and the CLI scripts: time formatters.  The       *)
(* argument ms stands for the double x nearest to ms / 1000.                *)

\* 2^k
RECURSIVE Pow2(_)
Pow2(k) == IF k = 0 THEN 1 ELSE 2 * Pow2(k - 1)

\* 2^k modulo 1000
RECURSIVE Pow2Mod1000(_)
Pow2Mod1000(k) == IF k = 0 THEN 1 ELSE (2 * Pow2Mod1000(k - 1)) % 1000

\* the binary exponent of x >= 1: the greatest e with 2^e <= x
RECURSIVE Exponent(_)
Exponent(ms) == IF ms < 2000 THEN 0 ELSE 1 + Exponent(ms \div 2)

\* the least k with 2^k >= r
RECURSIVE CeilLog2(_)
CeilLog2(r) == IF r <= 1 THEN 0 ELSE 1 + CeilLog2((r + 1) \div 2)

\* String.prototype.padStart(length, '0')
RECURSIVE PadStart(_, _)
PadStart(str, length) ==
    IF Len(str) >= length THEN str ELSE PadStart(<<"0">> \o str, length)

\* MillisPart with the arithmetic of the reals instead of that of doubles
MillisPartExact(ms) == ms % 1000

\* Math.floor((seconds % 1) * 1000) in IEEE-754 double arithmetic.  With
\* r = ms % 1000, x is r / 1000 off a whole number by a representation error;
\* seconds % 1 is exact, so the product is r plus 1000 times that error, rounded
\* to the nearest double.  below is the distance of x under ms / 1000 in units
\* of 2^(e - 52) / 1000, where e is the exponent of x; the product rounds up to
\* r only when that distance is at most half the spacing of the doubles just
\* under r, and else the floor is r - 1.
MillisPart(ms) ==
    LET r == ms % 1000
        e == Exponent(ms)
        below == (r * Pow2Mod1000(52 - e)) % 1000
        slack == CeilLog2(r) - 1 - e - 1
    IN  IF ms < 1000 \/ r = 0 THEN r
        ELSE IF below = 0 \/ below > 500 THEN r
        ELSE IF slack >= 0 /\ below <= Pow2(slack) THEN r
        ELSE r - 1

\* the web exporter's formatSRTTime
formatSRTTime(ms) ==
    LET hours == ms \div 3600000
        minutes == (ms % 3600000) \div 60000
        secs == (ms % 60000) \div 1000
    IN  PadStart(NumberToString(hours), 2) \o <<":">>
            \o PadStart(NumberToString(minutes), 2) \o <<":">>
            \o PadStart(NumberToString(secs), 2) \o <<",">>
            \o PadStart(NumberToString(MillisPart(ms)), 3)

\* formatSRTTime of cli/youtube-transcriber.js; the functions of the same name
\* in cli/transcribe-chunked.js and cli/transcribe-existing.js have the same body
cliFormatSRTTime(ms) ==
    LET hours == ms \div 3600000
        minutes == (ms % 3600000) \div 60000
        secs == (ms % 60000) \div 1000
    IN  PadStart(NumberToString(hours), 2) \o <<":">>
            \o PadStart(NumberToString(minutes), 2) \o <<":">>
            \o PadStart(NumberToString(secs), 2) \o <<",">>
            \o PadStart(NumberToString(MillisPart(ms)), 3)

\* what a time has beyond its whole milliseconds: nothing, less than half a
\* millisecond, or more than half a millisecond
NoExcess == "none"
Excesses == {NoExcess, "low", "high"}

\* (seconds % 60).toFixed(3): toFixed rounds to the nearest millisecond, so an
\* excess of more than half a millisecond is printed as the next millisecond
SecsToFixed3(ms, excess) ==
    LET shown == (ms % 60000) + (IF excess = "high" THEN 1 ELSE 0)
    IN  NumberToString(shown \div 1000) \o <<".">>
            \o PadStart(NumberToString(shown % 1000), 3)

\* the web exporter's formatVTTTime
formatVTTTime(ms, excess) ==
    LET hours == ms \div 3600000
        minutes == (ms % 3600000) \div 60000
    IN  IF hours > 0
          THEN PadStart(NumberToString(hours), 2) \o <<":">>
                   \o PadStart(NumberToString(minutes), 2) \o <<":">>
                   \o PadStart(SecsToFixed3(ms, excess), 6)
          ELSE PadStart(NumberToString(minutes), 2) \o <<":">>
                   \o PadStart(SecsToFixed3(ms, excess), 6)

\* cliFormatVTTTime without the hours field when it is zero
cliFormatVTTTimeShort(ms) ==
    LET hours == ms \div 3600000
        minutes == (ms % 3600000) \div 60000
        secs == (ms % 60000) \div 1000
    IN  (IF hours > 0 THEN PadStart(NumberToString(hours), 2) \o <<":">> ELSE <<>>)
            \o PadStart(NumberToString(minutes), 2) \o <<":">>
            \o PadStart(NumberToString(secs), 2) \o <<".">>
            \o PadStart(NumberToString(MillisPart(ms)), 3)

\* formatVTTTime of cli/youtube-transcriber.js; the functions of the same name
\* in cli/transcribe-chunked.js and cli/transcribe-existing.js have the same body
cliFormatVTTTime(ms) ==
    LET hours == ms \div 3600000
        minutes == (ms % 3600000) \div 60000
        secs == (ms % 60000) \div 1000
    IN  PadStart(NumberToString(hours), 2) \o <<":">>
            \o PadStart(NumberToString(minutes), 2) \o <<":">>
            \o PadStart(NumberToString(secs), 2) \o <<".">>
            \o PadStart(NumberToString(MillisPart(ms)), 3)

----------------------------------------------------------------------------
(* chunkedTranscription.ts : the exporters *)

\* the filter of generateSRTFile and generateVTTFile
Exportable(chunk) == chunk.error = NoError /\ Trim(chunk.text) # <<>>

\* SRTCues with a plausible bug: the cue is numbered by chunkIndex + 1
RECURSIVE SRTCuesByChunkIndex(_, _)
SRTCuesByChunkIndex(list, subtitleIndex) ==
    IF list = <<>> THEN <<>>
    ELSE LET chunk == Head(list)
         IN  IF Exportable(chunk)
               THEN <<[number |-> chunk.chunkIndex + 1,
                       start |-> formatSRTTime(chunk.startTime),
                       end |-> formatSRTTime(chunk.endTime),
                       text |-> Trim(chunk.text)]>>
                        \o SRTCuesByChunkIndex(Tail(list), subtitleIndex + 1)
               ELSE SRTCuesByChunkIndex(Tail(list), subtitleIndex)

\* generateSRTFile: the forEach over result.chunks, from subtitleIndex on
RECURSIVE SRTCues(_, _)
SRTCues(list, subtitleIndex) ==
    IF list = <<>> THEN <<>>
    ELSE LET chunk == Head(list)
         IN  IF Exportable(chunk)
               THEN <<[number |-> subtitleIndex,
                       start |-> formatSRTTime(chunk.startTime),
                       end |-> formatSRTTime(chunk.endTime),
                       text |-> Trim(chunk.text)]>>
                        \o SRTCues(Tail(list), subtitleIndex + 1)
               ELSE SRTCues(Tail(list), subtitleIndex)

\* generateVTTFile: the forEach over result.chunks
RECURSIVE VTTCues(_)
VTTCues(list) ==
    IF list = <<>> THEN <<>>
    ELSE LET chunk == Head(list)
         IN  IF Exportable(chunk)
               THEN <<[start |-> formatVTTTime(chunk.startTime, NoExcess),
                       end |-> formatVTTTime(chunk.endTime, NoExcess),
                       text |-> Trim(chunk.text)]>> \o VTTCues(Tail(list))
               ELSE VTTCues(Tail(list))

generateSRTFile(res) ==
    [format |-> "srt", type |-> "text/plain", header |-> <<>>,
     cues |-> SRTCues(res.chunks, 1)]

generateVTTFile(res) ==
    [format |-> "vtt", type |-> "text/vtt", header |-> <<"WEBVTT", "\n", "\n">>,
     cues |-> VTTCues(res.chunks)]

\* generateJSONFile with a plausible bug: the errored chunks are left out as
\* they are from the subtitle formats
generateJSONFileSkipsErrors(res, name, date) ==
    [format |-> "json", type |-> "application/json",
     metadata |-> [fileName |-> name, generated |-> date,
                   totalDuration |-> res.totalDuration, error |-> res.error],
     fullText |-> res.fullText,
     chunks |-> LET kept == SelectSeq(res.chunks, NoChunkError)
                IN  [k \in 1..Len(kept) |->
                       [index |-> kept[k].chunkIndex,
                        startTime |-> kept[k].startTime,
                        endTime |-> kept[k].endTime,
                        text |-> kept[k].text,
                        error |-> kept[k].error]]]

\* generateJSONFile: the data that is stringified; generated is the reading of
\* the clock that toISOString prints; an error that is NoError is an absent key
generateJSONFile(res, name, date) ==
    [format |-> "json", type |-> "application/json",
     metadata |-> [fileName |-> name, generated |-> date,
                   totalDuration |-> res.totalDuration, error |-> res.error],
     fullText |-> res.fullText,
     chunks |-> [k \in 1..Len(res.chunks) |->
                   [index |-> res.chunks[k].chunkIndex,
                    startTime |-> res.chunks[k].startTime,
                    endTime |-> res.chunks[k].endTime,
                    text |-> res.chunks[k].text,
                    error |-> res.chunks[k].error]]]

\* formatDuration: h:MM:SS when the hours are above zero, else m:SS
formatDuration(ms) ==
    LET hours == ms \div 3600000
        minutes == (ms % 3600000) \div 60000
        secs == (ms % 60000) \div 1000
    IN  IF hours > 0
          THEN NumberToString(hours) \o <<":">>
                   \o PadStart(NumberToString(minutes), 2) \o <<":">>
                   \o PadStart(NumberToString(secs), 2)
          ELSE NumberToString(minutes) \o <<":">>
                   \o PadStart(NumberToString(secs), 2)

\* generateTextFile: the parts of the content in their order; generated is the
\* reading of the clock that toLocaleString prints, warning the outcome's
\* error, and each entry of the breakdown has the chunk's error or trimmed text
generateTextFile(res, name, date) ==
    [format |-> "txt", type |-> "text/plain",
     title |-> name,
     generated |-> date,
     totalDuration |-> formatDuration(res.totalDuration),
     warning |-> res.error,
     fullText |-> res.fullText,
     breakdown |-> [k \in 1..Len(res.chunks) |->
                      [number |-> res.chunks[k].chunkIndex + 1,
                       start |-> formatDuration(res.chunks[k].startTime),
                       end |-> formatDuration(res.chunks[k].endTime),
                       error |-> res.chunks[k].error,
                       text |-> IF res.chunks[k].error # NoError THEN <<>>
                                ELSE Trim(res.chunks[k].text)]]]

\* the start of the match of /\.[^/.]+$/ in the name, or 0: the last full stop,
\* if characters follow it and none of them is a slash
ExtensionStart(name) ==
    LET stops == {k \in 1..Len(name) : name[k] = "."}
        last == IF stops = {} THEN 0
                ELSE CHOOSE k \in stops : \A m \in stops : m <= k
    IN  IF last = 0 \/ last = Len(name) THEN 0
        ELSE IF \E k \in (last + 1)..Len(name) : name[k] = "/" THEN 0
        ELSE last

\* fileName.replace(/\.[^/.]+$/, '')
BaseFileName(name) ==
    IF ExtensionStart(name) = 0 THEN name
    ELSE SubSeq(name, 1, ExtensionStart(name) - 1)

\* a record with one more field
WithField(rec, field, value) ==
    [f \in DOMAIN rec \cup {field} |-> IF f = field THEN value ELSE rec[f]]

\* generateTranscriptFile with a plausible bug: the suggested file name carries
\* the time of the export
generateTranscriptFileStamped(res, name, format, date) ==
    WithField(
        CASE format = "srt" -> generateSRTFile(res)
          [] format = "vtt" -> generateVTTFile(res)
          [] format = "json" -> generateJSONFile(res, name, date)
          [] OTHER -> generateTextFile(res, name, date),
        "filename",
        BaseFileName(name) \o <<"_transcript_">> \o NumberToString(date)
            \o <<".", format>>)

\* generateTranscriptFile(result, fileName, format): the blob's content with
\* the suggested file name as one more field
generateTranscriptFile(res, name, format, date) ==
    WithField(
        CASE format = "srt" -> generateSRTFile(res)
          [] format = "vtt" -> generateVTTFile(res)
          [] format = "json" -> generateJSONFile(res, name, date)
          [] OTHER -> generateTextFile(res, name, date),
        "filename",
        BaseFileName(name) \o <<"_transcript.", format>>)

\* what one attempt series may end with for a segment
ResultKinds == {SuccessResult(text) : text \in Texts} \cup {ErrorResult(BackendMessage)}

\* chunk k of n on the 5 s cadence (milliseconds); the last one ends 2.3 s
\* after its start
ExportChunk(k, n) ==
    [index |-> k,
     startTime |-> k * MinChunkSeconds * 1000,
     endTime |-> IF k = n - 1 THEN k * MinChunkSeconds * 1000 + 2300
                 ELSE (k + 1) * MinChunkSeconds * 1000]

\* the outcomes transcribeAudioInChunks returns for up to MaxExportChunks chunks
ExportOutcomes ==
    {FailedOutcome("No chunks were created from the audio file")}
    \cup UNION {
        {LET list == [k \in 1..n |-> ExportChunk(k - 1, n)]
             results == [k \in 1..n |-> ChunkResult(list[k], kinds[k])]
         IN  Outcome(results, list, \E k \in 1..n : kinds[k].error # NoError)
           : kinds \in [1..n -> ResultKinds]}
        : n \in 1..MaxExportChunks}

\* everything that belongs to a run or to the segmenter is at rest
AtRest ==
    /\ file = File([sampleRate |-> 1, numberOfChannels |-> 1, duration |-> 0])
    /\ options = CHOOSE o \in RunOptions : TRUE
    /\ chunkerPc = "idle"
    /\ audioContext = "closed"
    /\ chunkDuration = 0
    /\ currentTime = 0
    /\ chunks = <<>>
    /\ chunkError = NoError
    /\ i = 0
    /\ retries = 0
    /\ result = Null
    /\ chunkResults = <<>>
    /\ hasError = FALSE
    /\ active = NoRequest
    /\ stale = 0
    /\ progress = <<>>
    /\ pauses = 0
    /\ apiKey = NoKey
    /\ mode = NoMode
    /\ transcribedChunks = <<>>

\* the file names of the downloads: with an extension, without one, with two,
\* with a full stop at the end or at the start only, and with a full stop in a
\* directory name only
FileNames ==
    {<<"a", ".", "m", "p", "3">>, <<"a">>, <<"a", ".", "b", ".", "m">>,
     <<"a", ".">>, <<".", "m">>, <<"a", ".", "b", "/", "c">>}

TranscriptFormats == {"txt", "srt", "vtt", "json"}

\* generateTranscriptFile(result, fileName, format) is about to be called
InitExport ==
    /\ AtRest
    /\ pc = "exporting"
    /\ outcome \in ExportOutcomes
    /\ seconds = 0
    /\ exported = NoExport
    /\ fileName \in FileNames
    /\ now = 0
    /\ earlier = NoExport
    /\ ToolsAtRest

\* the download handler calls generateTranscriptFile(result, fileName, format);
\* the clock has moved on at the next call
Download(format) ==
    /\ pc = "exporting"
    /\ now < MaxExports
    /\ exported' = generateTranscriptFile(outcome, fileName, format, now)
    /\ earlier' = exported
    /\ now' = now + 1
    /\ UNCHANGED <<seconds, fileName>>
    /\ UNCHANGED <<chunkerVars, runVars, callVars, transcribedChunks, toolVars>>

GenerateSRTFile == Download("srt")

GenerateVTTFile == Download("vtt")

GenerateJSONFile == Download("json")

GenerateTextFile == Download("txt")

NextExport ==
    \/ GenerateSRTFile
    \/ GenerateVTTFile
    \/ GenerateJSONFile
    \/ GenerateTextFile

SpecExport == InitExport /\ [][NextExport]_vars

\* the times the formatters are called with: every millisecond up to
\* MaxFormatMillis, the last millisecond of a minute and of an hour, and the
\* times of the CLI tests
FormatInputs == (0..MaxFormatMillis) \cup {59999, 3599999, 65500, 3661750}

InitFormat ==
    /\ AtRest
    /\ pc = "formatting"
    /\ outcome = Null
    /\ seconds \in FormatInputs
    /\ exported = NoExport
    /\ fileName = <<>>
    /\ now = 0
    /\ earlier = NoExport
    /\ ToolsAtRest

FormatSRTTime ==
    /\ pc = "formatting"
    /\ exported.format = "none"
    /\ exported' = [format |-> "time", copy |-> "web", text |-> formatSRTTime(seconds)]
    /\ UNCHANGED <<seconds, fileName, now, earlier>>
    /\ UNCHANGED <<chunkerVars, runVars, callVars, transcribedChunks, toolVars>>

CliFormatSRTTime ==
    /\ pc = "formatting"
    /\ exported.format = "none"
    /\ exported' = [format |-> "time", copy |-> "cli", text |-> cliFormatSRTTime(seconds)]
    /\ UNCHANGED <<seconds, fileName, now, earlier>>
    /\ UNCHANGED <<chunkerVars, runVars, callVars, transcribedChunks, toolVars>>

\* formatVTTTime(t) of the web exporter, t being seconds / 1000 plus an excess
FormatVTTTime ==
    /\ pc = "formatting"
    /\ exported.format = "none"
    /\ \E excess \in Excesses :
          exported' = [format |-> "vttTime", copy |-> "web", excess |-> excess,
                       text |-> formatVTTTime(seconds, excess)]
    /\ UNCHANGED <<seconds, fileName, now, earlier>>
    /\ UNCHANGED <<chunkerVars, runVars, callVars, transcribedChunks, toolVars>>

CliFormatVTTTime ==
    /\ pc = "formatting"
    /\ exported.format = "none"
    /\ exported' = [format |-> "vttTime", copy |-> "cli", excess |-> NoExcess,
                    text |-> cliFormatVTTTime(seconds)]
    /\ UNCHANGED <<seconds, fileName, now, earlier>>
    /\ UNCHANGED <<chunkerVars, runVars, callVars, transcribedChunks, toolVars>>

NextFormat ==
    \/ FormatSRTTime
    \/ CliFormatSRTTime
    \/ FormatVTTTime
    \/ CliFormatVTTTime

SpecFormat == InitFormat /\ [][NextFormat]_vars

----------------------------------------------------------------------------
(* mediaConverter.ts : extractAudioFromVideo, and the page's handleFileAccepted *)

\* the values of HTMLMediaElement.duration: NaN, Infinity or seconds
MediaDurations ==
    {[kind |-> "NaN", value |-> 0], [kind |-> "Infinity", value |-> 0]}
    \cup {[kind |-> "number", value |-> v] : v \in 0..MaxMediaSeconds}

\* isFinite(duration); a duration that was not read yet is NaN
IsFinite(d) == d.kind = "number"

\* !isFinite(duration) || duration <= 0
InvalidDuration(d) == ~IsFinite(d) \/ d.value <= 0

\* !duration
FalsyDuration(d) == d.kind \in {"NaN", "unknown"} \/ (d.kind = "number" /\ d.value = 0)

\* cleanup(videoElement, videoUrl); reject(new Error(message))
Rejected(message) ==
    [converter EXCEPT !.pc = "settled", !.settled = "rejected", !.error = message]

\* cleanup(videoElement, videoUrl); resolve(audioFile): a promise that is
\* settled stays as it is
Resolved(conv) ==
    [conv EXCEPT !.pc = "settled",
                 !.settled = IF conv.settled = "pending" THEN "resolved" ELSE @]

\* the options the page passes to transcribeAudioInChunks
PageOptions ==
    [chunkDurationSeconds |-> 120 * TicksPerSecond,
     overlapSeconds |-> 5 * TicksPerSecond,
     maxChunkSize |-> DefaultMaxChunkSize]

\* const shouldChunk = fileToProcess.size > 25 * 1024 * 1024, and apiKey
PageChunks == page.large /\ HasKey(page.apiKey)

\* the steps of the page and of the converter leave these alone
ConversionOnly ==
    UNCHANGED <<chunkerVars, runVars, callVars, transcribedChunks, exportVars,
                cliVars, homePage>>

\* the rest of handleFileAccepted once fileToProcess is known: the call of
\* transcribeAudioInChunks or of transcribeAudio, up to its first await
StartTranscription ==
    /\ page' = [page EXCEPT !.pc = "transcribing"]
    /\ pc' = IF PageChunks THEN "chunking" ELSE "calling"
    /\ chunkerPc' = IF PageChunks THEN "reading" ELSE chunkerPc
    /\ audioContext' = IF PageChunks THEN "open" ELSE audioContext
    /\ options' = IF PageChunks THEN PageOptions ELSE options
    /\ file' \in RunFiles
    /\ apiKey' = page.apiKey
    /\ mode' = IF HasKey(page.apiKey) THEN "openai" ELSE "local"
    /\ UNCHANGED <<chunkDuration, currentTime, chunks, chunkError>>
    /\ UNCHANGED <<i, retries, result, chunkResults, hasError, active, stale,
                   outcome, progress, pauses>>
    /\ UNCHANGED <<transcribedChunks, exportVars, cliVars, homePage>>

\* handleFileAccepted(acceptedFile) up to its first await or its return
HandleFileAccepted ==
    /\ page.pc = "accepted"
    /\ IF page.type = "video"
         THEN /\ page' = [page EXCEPT !.pc = "converting"]
              /\ converter' = [NoConversion EXCEPT !.pc = "loading"]
              /\ ConversionOnly
         ELSE IF page.type # "audio"
                THEN /\ page' = [page EXCEPT !.pc = "refused",
                                   !.error = <<"Unsupported file type. Please upload an audio or video file.">>]
                     /\ converter' = converter
                     /\ ConversionOnly
                ELSE /\ StartTranscription
                     /\ converter' = converter

\* videoElement.onerror
VideoError ==
    /\ converter.pc = "loading"
    /\ converter' = Rejected("Video loading error")
    /\ page' = page
    /\ ConversionOnly

\* videoElement.onloadedmetadata: the duration check, the choice of the
\* recording format, the construction and the start of the recorder
VideoMetadataLoaded ==
    /\ converter.pc = "loading"
    /\ \E d \in MediaDurations, recorder \in {"supported", "noType", "throws"} :
          converter' =
              IF InvalidDuration(d)
                THEN [Rejected("Invalid video duration detected")
                        EXCEPT !.videoDuration = d]
              ELSE IF recorder = "noType"
                THEN [Rejected("No supported audio recording format found")
                        EXCEPT !.videoDuration = d]
              ELSE IF recorder = "throws"
                THEN [Rejected("Failed to construct 'MediaRecorder'")
                        EXCEPT !.videoDuration = d]
              ELSE [converter EXCEPT !.pc = "recording", !.videoDuration = d]
    /\ page' = page
    /\ ConversionOnly

\* videoElement.play() rejects
PlayFails ==
    /\ converter.pc = "recording"
    /\ converter' = Rejected("Failed to play video")
    /\ page' = page
    /\ ConversionOnly

\* mediaRecorder.ondataavailable with data
DataAvailable ==
    /\ converter.pc = "recording"
    /\ converter.audioChunks < MaxCaptured
    /\ converter' = [converter EXCEPT !.audioChunks = @ + 1]
    /\ page' = page
    /\ ConversionOnly

\* the video ended or the safety timeout fired: mediaRecorder.onstop
RecorderStopped ==
    /\ converter.pc = "recording"
    /\ converter' = IF converter.audioChunks = 0
                       THEN Rejected("No audio data captured")
                       ELSE [converter EXCEPT !.pc = "verifying", !.testTimer = TRUE]
    /\ page' = page
    /\ ConversionOnly

\* testAudio.onloadedmetadata: both branches resolve with the audio file
TestMetadataLoaded ==
    /\ converter.pc = "verifying"
    /\ \E d \in MediaDurations :
          converter' = Resolved([converter EXCEPT !.audioDuration = d])
    /\ page' = page
    /\ ConversionOnly

\* testAudio.onerror
TestAudioError ==
    /\ converter.pc = "verifying"
    /\ converter' = Resolved(converter)
    /\ page' = page
    /\ ConversionOnly

\* the 3 s timer set by onstop
TestTimeout ==
    /\ converter.testTimer
    /\ converter' =
          IF FalsyDuration(converter.audioDuration) \/ ~IsFinite(converter.audioDuration)
            THEN [Resolved(converter) EXCEPT !.testTimer = FALSE]
            ELSE [converter EXCEPT !.testTimer = FALSE]
    /\ page' = page
    /\ ConversionOnly

\* await extractAudioFromVideo(acceptedFile) returns the audio file
ConversionResolved ==
    /\ page.pc = "converting"
    /\ converter.settled = "resolved"
    /\ StartTranscription
    /\ converter' = converter

\* await extractAudioFromVideo(acceptedFile) throws: the catch block
ConversionRejected ==
    /\ page.pc = "converting"
    /\ converter.settled = "rejected"
    /\ page' = [page EXCEPT
                   !.pc = "failed",
                   !.error = IF converter.error = "Failed to construct 'MediaRecorder'"
                               THEN <<"Your browser doesn't support the required audio recording features. Please try a different browser like Chrome or Firefox.">>
                               ELSE <<"Failed to extract audio from video", ": ",
                                      converter.error>>]
    /\ converter' = converter
    /\ ConversionOnly

\* a file was dropped on the page: a video, an audio or another file, above
\* 25 MB or not, with or without an API key entered
InitVideo ==
    /\ AtRest
    /\ pc = "idle"
    /\ outcome = Null
    /\ seconds = 0
    /\ exported = NoExport
    /\ fileName = <<>>
    /\ now = 0
    /\ earlier = NoExport
    /\ page \in [pc : {"accepted"}, type : {"video", "audio", "other"},
                  large : BOOLEAN, apiKey : {NoKey, ValidKey}, error : {<<>>}]
    /\ converter = NoConversion
    /\ homePage = NoRuns
    /\ CliAtRest

NextVideo ==
    \/ HandleFileAccepted
    \/ VideoError
    \/ VideoMetadataLoaded
    \/ PlayFails
    \/ DataAvailable
    \/ RecorderStopped
    \/ TestMetadataLoaded
    \/ TestAudioError
    \/ TestTimeout
    \/ ConversionResolved
    \/ ConversionRejected

SpecVideo == InitVideo /\ [][NextVideo]_vars

----------------------------------------------------------------------------
(* cli/youtube-transcriber.js : YouTubeTranscriber.  A path is the sequence of *)
(* its names under the working directory, a name a sequence of pieces of text. *)

\* this.resultsDir
ResultsDir == <<<<"results">>>>

\* path.join(dir, name): an empty name adds nothing
PathJoin(dir, name) == IF name = <<>> THEN dir ELSE Append(dir, name)

\* the path is the directory or lies under it
Under(path, dir) == Len(dir) <= Len(path) /\ SubSeq(path, 1, Len(dir)) = dir

\* the pieces that /[^\w\s-]/g removes
SpecialPieces == {"!", "?", ":", "/"}

\* the piece is kept by .replace(/[^\w\s-]/g, '')
KeptPiece(piece) == piece \notin SpecialPieces

\* .replace(/\s+/g, ' '): a run of white space becomes one space
RECURSIVE CollapseSpaces(_)
CollapseSpaces(text) ==
    IF Len(text) < 2 THEN text
    ELSE IF text[1] = " " /\ text[2] = " " THEN CollapseSpaces(Tail(text))
    ELSE <<text[1]>> \o CollapseSpaces(Tail(text))

\* sanitizeFileName
sanitizeFileName(filename) ==
    LET trimmed == Trim(CollapseSpaces(SelectSeq(filename, KeptPiece)))
    IN  [k \in 1..Len(trimmed) |-> IF trimmed[k] = " " THEN "_" ELSE trimmed[k]]

\* the three directories of a video
VideoResultDir(sanitizedTitle) == PathJoin(ResultsDir, sanitizedTitle)
DownloadsDir(sanitizedTitle) == Append(VideoResultDir(sanitizedTitle), <<"downloads">>)
TranscriptsDir(sanitizedTitle) == Append(VideoResultDir(sanitizedTitle), <<"transcripts">>)

\* createVideoDirectories: the disk after the three mkdirSync
createVideoDirectories(d, sanitizedTitle) ==
    d \cup {VideoResultDir(sanitizedTitle), DownloadsDir(sanitizedTitle),
            TranscriptsDir(sanitizedTitle)}

\* fs.rmSync(dir, { recursive: true })
RmSync(d, dir) == {path \in d : ~Under(path, dir)}

\* fs.renameSync(from, to) of a directory that exists
RenameSync(d, from, to) ==
    {path \in d : ~Under(path, from)}
        \cup {to \o SubSeq(path, Len(from) + 1, Len(path)) : path \in {q \in d : Under(q, from)}}

\* TooLarge with a plausible bug: no file is refused
TooLargeNever(sizeMB) == FALSE

\* fileSizeInMB > 25
TooLarge(sizeMB) == sizeMB > whisperLimitMB

\* the step throws: processYouTubeUrl logs the error and rethrows it
Thrown(message) == [transcriber EXCEPT !.pc = "failed", !.error = message]

\* the steps of the transcriber leave these alone
TranscriberOnly ==
    /\ UNCHANGED <<chunkerVars, runVars, callVars, transcribedChunks, exportVars,
                   pageVars, scriptVars>>
    /\ collector' = collector

\* the id in the URLs given, the titles yt-dlp prints for them, and the sizes
\* of the audio files in MB
VideoIds == {<<"abc123">>, <<"My", "_", "Talk">>}
Titles ==
    {<<"abc123">>, <<"My", " ", "Talk", "!">>, <<" ", "My", " ", " ", "Talk", ":", " ", "2">>,
     <<"?", "!">>}
AudioSizes == {1, whisperLimitMB, whisperLimitMB + 1}

\* processYouTubeUrl calls downloadAudio: the video id, the temporary
\* directories, and the first yt-dlp is started in downloadsDir
DownloadAudio ==
    /\ transcriber.pc = "start"
    /\ IF transcriber.videoId = <<>>
         THEN /\ transcriber' = Thrown("Failed to download audio: Invalid YouTube URL")
              /\ disk' = disk
         ELSE /\ disk' = createVideoDirectories(disk, transcriber.videoId)
              /\ transcriber' =
                    [transcriber EXCEPT
                       !.pc = "metadata",
                       !.videoResultDir = VideoResultDir(transcriber.videoId),
                       !.downloadsDir = DownloadsDir(transcriber.videoId)]
    /\ TranscriberOnly

\* the first yt-dlp exits with an error
MetadataFails ==
    /\ transcriber.pc = "metadata"
    /\ transcriber' = Thrown("Failed to download audio: Command failed")
    /\ disk' = disk
    /\ TranscriberOnly

\* the first yt-dlp printed title and duration: the directory is renamed when
\* the sanitized title is not the video id, Object.assign copies the new
\* directories into a fresh object, and the second yt-dlp is started with
\* cwd: downloadsDir
MetadataReturned ==
    /\ transcriber.pc = "metadata"
    /\ \E title \in Titles :
          LET sanitizedTitle == sanitizeFileName(title)
              differs == transcriber.videoId # sanitizedTitle
              newVideoResultDir == VideoResultDir(sanitizedTitle)
              removed == IF newVideoResultDir \in disk
                           THEN RmSync(disk, newVideoResultDir) ELSE disk
              renamed == createVideoDirectories(
                             RenameSync(removed, transcriber.videoResultDir,
                                        newVideoResultDir),
                             sanitizedTitle)
              titled == [transcriber EXCEPT !.title = title]
          IN  IF differs /\ transcriber.videoResultDir \notin removed
                THEN /\ disk' = removed
                     /\ transcriber' =
                           [titled EXCEPT !.pc = "failed",
                                          !.error = "Failed to download audio: ENOENT rename"]
                ELSE /\ disk' = IF differs THEN renamed ELSE disk
                     /\ transcriber' =
                           IF transcriber.downloadsDir \in disk'
                             THEN [titled EXCEPT !.pc = "downloading",
                                                 !.cwd = transcriber.downloadsDir]
                             ELSE [titled EXCEPT
                                     !.pc = "failed",
                                     !.cwd = transcriber.downloadsDir,
                                     !.error = "Failed to download audio: spawnSync ENOENT"]
    /\ TranscriberOnly

\* the second yt-dlp exits with an error
DownloadFails ==
    /\ transcriber.pc = "downloading"
    /\ transcriber' = Thrown("Failed to download audio: Command failed")
    /\ disk' = disk
    /\ TranscriberOnly

\* the second yt-dlp wrote the mp3 into its working directory: downloadAudio
\* returns, and transcribeAudio runs up to its request
DownloadReturned ==
    /\ transcriber.pc = "downloading"
    /\ \E size \in AudioSizes :
          LET sanitizedTitle == sanitizeFileName(transcriber.title)
              mp3 == sanitizedTitle \o <<".mp3">>
              audioFile == Append(transcriber.downloadsDir, mp3)
              got == [transcriber EXCEPT !.audioFile = audioFile, !.audioSize = size]
          IN  /\ disk' = disk \cup {Append(transcriber.cwd, mp3)}
              /\ transcriber' =
                    IF ~HasKey(transcriber.openaiApiKey)
                      THEN [got EXCEPT !.pc = "failed",
                                       !.error = "OpenAI API key not found. Set OPENAI_API_KEY environment variable."]
                    ELSE IF audioFile \notin disk'
                      THEN [got EXCEPT !.pc = "failed", !.error = "ENOENT stat"]
                    ELSE IF TooLarge(size)
                      THEN [got EXCEPT !.pc = "failed",
                                       !.error = "Audio file is too large (>25MB). Please use chunked transcription."]
                    ELSE [got EXCEPT !.pc = "transcribing", !.requests = @ + 1]
    /\ TranscriberOnly

\* openai.audio.transcriptions.create rejects
TranscriptionFails ==
    /\ transcriber.pc = "transcribing"
    /\ transcriber' = Thrown("Transcription failed")
    /\ disk' = disk
    /\ TranscriberOnly

\* the response arrived, with or without segments: saveTranscripts
SaveTranscripts ==
    /\ transcriber.pc = "transcribing"
    /\ transcriber.openaiApiKey = ValidKey
    /\ \E segments \in BOOLEAN :
          LET transcriptDir == Append(transcriber.videoResultDir, <<"transcripts">>)
              files == {Append(transcriptDir, <<"transcript", ".", ext>>) :
                          ext \in IF segments THEN {"txt", "json", "srt", "vtt"}
                                               ELSE {"txt", "json"}}
          IN  IF transcriptDir \in disk
                THEN /\ disk' = disk \cup files
                     /\ transcriber' = [transcriber EXCEPT !.pc = "done",
                                                           !.written = files]
                ELSE /\ disk' = disk
                     /\ transcriber' = Thrown("ENOENT open")
    /\ TranscriberOnly

\* the disk when the transcriber is constructed: the results directory, with
\* or without the directories and a transcript of an earlier run
FreshDisk == {ResultsDir}
UsedDisk ==
    createVideoDirectories(FreshDisk, <<"My", "_", "Talk">>)
        \cup {Append(TranscriptsDir(<<"My", "_", "Talk">>), <<"transcript", ".", "txt">>)}

InitYouTube ==
    /\ AtRest
    /\ pc = "idle"
    /\ outcome = Null
    /\ seconds = 0
    /\ exported = NoExport
    /\ fileName = <<>>
    /\ now = 0
    /\ earlier = NoExport
    /\ PageAtRest
    /\ collector = NoCollector
    /\ ScriptsAtRest
    /\ disk \in {FreshDisk, UsedDisk}
    /\ \E key \in {NoKey, ValidKey, InvalidKey}, id \in VideoIds \cup {<<>>} :
          transcriber = [NoTranscriber EXCEPT !.pc = "start", !.openaiApiKey = key,
                                              !.videoId = id]

NextYouTube ==
    \/ DownloadAudio
    \/ MetadataFails
    \/ MetadataReturned
    \/ DownloadFails
    \/ DownloadReturned
    \/ TranscriptionFails
    \/ SaveTranscripts

SpecYouTube == InitYouTube /\ [][NextYouTube]_vars

----------------------------------------------------------------------------
(* cli/tiktok-collect-urls.js : collectVideoUrls.  The feed shows the first    *)
(* `loaded` videos of the profile; every video has a plain anchor and one      *)
(* with a query string and a fragment.                                         *)

\* the anchors of one video, in page order
VideoAnchors(video) ==
    << [path |-> video, search |-> "", hash |-> ""],
       [path |-> video, search |-> "?lang=en", hash |-> "#comments"] >>

\* snapshot.hrefs of a feed that shows the first n videos
RECURSIVE Hrefs(_)
Hrefs(n) == IF n = 0 THEN <<>> ELSE Hrefs(n - 1) \o VideoAnchors(n)

\* normalizeUrl: search and hash are emptied
normalizeUrl(href) == [href EXCEPT !.search = "", !.hash = ""]

\* Set.prototype.add: insertion order, a value already there is not added
SetAdd(set, value) ==
    IF \E k \in 1..Len(set) : set[k] = value THEN set ELSE Append(set, value)

\* for (const href of snapshot.hrefs) collected.add(normalizeUrl(href))
RECURSIVE AddAll(_, _)
AddAll(set, hrefs) ==
    IF hrefs = <<>> THEN set
    ELSE AddAll(SetAdd(set, normalizeUrl(Head(hrefs))), Tail(hrefs))

\* the digits a text starts with
RECURSIVE LeadingDigits(_)
LeadingDigits(text) ==
    IF text = <<>> \/ ~(\E d \in 1..10 : DigitChars[d] = text[1]) THEN <<>>
    ELSE <<text[1]>> \o LeadingDigits(Tail(text))

\* the value of a sequence of digits
RECURSIVE DigitsValue(_)
DigitsValue(digits) ==
    IF digits = <<>> THEN 0
    ELSE 10 * DigitsValue(SubSeq(digits, 1, Len(digits) - 1))
           + (CHOOSE d \in 0..9 : DigitChars[d + 1] = digits[Len(digits)])

\* Number.parseInt(text, 10)
parseInt(text) ==
    IF LeadingDigits(text) = <<>> THEN NotANumber ELSE DigitsValue(LeadingDigits(text))

\* args.x ? Number.parseInt(args.x, 10) : undefined
CountOption(arg) == IF arg = <<>> THEN Undefined ELSE parseInt(arg)

\* a number option in a condition: undefined, NaN and 0 are falsy
Truthy(limit) == limit \notin {Undefined, NotANumber, 0}

\* LimitReached with a plausible bug: one more than the limit is needed
LimitExceeded(limit, size) == Truthy(limit) /\ size > limit

\* limit && size >= limit
LimitReached(limit, size) == Truthy(limit) /\ size >= limit

\* document.documentElement.scrollHeight of a feed that shows n videos
CardHeight == 10
ScrollHeight(n) == CardHeight * n

\* the steps of the collector leave these alone
CollectorOnly ==
    /\ UNCHANGED <<chunkerVars, runVars, callVars, transcribedChunks, exportVars,
                   pageVars, scriptVars>>
    /\ transcriber' = transcriber
    /\ disk' = disk

\* the arguments given on the command line
CountArgs == {<<>>, <<"true">>} \cup {NumberToString(n) : n \in 0..MaxFeedVideos}
ScrollArgs == {<<>>, NumberToString(MaxScrollCount - 1)}
IdleLimits == {1, 2}

\* one pass of the loop up to its first await after the checks: the snapshot,
\* the new URLs, the counters, the three limits, and the click or scroll
TakeSnapshot ==
    /\ collector.pc = "snapshot"
    /\ collector.scrollCount < MaxScrollCount
    /\ LET scrollCount == collector.scrollCount + 1
           sizeBefore == Len(collector.collected)
           collected == AddAll(collector.collected, Hrefs(collector.loaded))
           newVideos == Len(collected) - sizeBefore
           counted ==
               [collector EXCEPT
                  !.scrollCount = scrollCount,
                  !.sizeBefore = sizeBefore,
                  !.collected = collected,
                  !.stagnationCounter = IF newVideos > 0 THEN 0 ELSE @ + 1,
                  !.noGrowthCounter = IF newVideos > 0 THEN 0 ELSE @ + 1]
       IN  collector' =
             IF \/ LimitReached(collector.maxVideos, Len(collected))
                \/ LimitReached(collector.targetCount, Len(collected))
                \/ LimitReached(collector.maxScrolls, scrollCount)
               THEN [counted EXCEPT !.pc = "returned"]
               ELSE [counted EXCEPT !.pc = "loading", !.moves = @ + 1]
    /\ CollectorOnly

\* the feed answers the click or scroll with more videos
FeedLoads ==
    /\ collector.pc = "loading"
    /\ \E n \in (collector.loaded + 1)..MaxFeedVideos :
          collector' = [collector EXCEPT !.loaded = n]
    /\ CollectorOnly

\* waitForLoad and the delay are over: the second evaluate, the stagnation
\* reset, lastScrollHeight, and the stop at the bottom
AfterScroll ==
    /\ collector.pc = "loading"
    /\ \E postReachedBottom \in BOOLEAN :
          LET postScrollHeight == ScrollHeight(collector.loaded)
              stagnationCounter ==
                  IF \/ Len(collector.collected) > collector.sizeBefore
                     \/ postScrollHeight > collector.lastScrollHeight + 4
                    THEN 0 ELSE collector.stagnationCounter
              measured ==
                  [collector EXCEPT
                     !.stagnationCounter = stagnationCounter,
                     !.lastScrollHeight = Max(@, postScrollHeight)]
          IN  collector' =
                IF /\ postReachedBottom
                   /\ stagnationCounter >= collector.idleLimit
                   /\ collector.noGrowthCounter >= collector.idleLimit
                  THEN [measured EXCEPT !.pc = "returned"]
                  ELSE [measured EXCEPT !.pc = "snapshot"]
    /\ CollectorOnly

InitCollect ==
    /\ AtRest
    /\ pc = "idle"
    /\ outcome = Null
    /\ seconds = 0
    /\ exported = NoExport
    /\ fileName = <<>>
    /\ now = 0
    /\ earlier = NoExport
    /\ PageAtRest
    /\ transcriber = NoTranscriber
    /\ disk = {}
    /\ ScriptsAtRest
    /\ \E max \in CountArgs, target \in {<<>>, NumberToString(MaxFeedVideos - 1)},
          scrolls \in ScrollArgs, idle \in IdleLimits, shown \in 0..MaxFeedVideos :
          collector = [NoCollector EXCEPT !.pc = "snapshot",
                                          !.maxVideos = CountOption(max),
                                          !.targetCount = CountOption(target),
                                          !.maxScrolls = CountOption(scrolls),
                                          !.idleLimit = idle,
                                          !.loaded = shown]

NextCollect ==
    \/ TakeSnapshot
    \/ FeedLoads
    \/ AfterScroll

SpecCollect == InitCollect /\ [][NextCollect]_vars

----------------------------------------------------------------------------
(* page.tsx and DropZone.tsx : the flags of Home and the files the drop zone   *)
(* hands to handleFileAccepted.  A run is one call of handleFileAccepted.      *)

\* DropZone is rendered with isProcessing={isProcessing || isChunkedProcessing}
\* and passes disabled: isProcessing to useDropzone
DropZoneDisabled(h) == h.isProcessing \/ h.isChunkedProcessing

\* the class pointer-events-none: (isProcessing || isConverting)
PointerEventsNone(h) == DropZoneDisabled(h) \/ h.isConverting

\* the files that can be dropped: their type and whether they are over 25 MB
DroppedFiles == [type : {"video", "audio", "other"}, large : BOOLEAN]

\* shouldChunk && apiKey
ShouldChunk(h, large) == large /\ HasKey(h.apiKey)

\* the transcription branch of handleFileAccepted up to its await: run r
\* calls transcribeAudioInChunks or transcribeAudio
BeginTranscription(h, r, large) ==
    IF ShouldChunk(h, large)
      THEN [h EXCEPT !.isChunkedProcessing = TRUE, !.runs[r].pc = "chunked"]
      ELSE [h EXCEPT !.isProcessing = TRUE, !.runs[r].pc = "single"]

\* handleFileAccepted(acceptedFile) up to its first await or its return
Accepted(h, f) ==
    LET r == Len(h.runs) + 1
        started == [h EXCEPT !.error = <<>>,
                             !.runs = Append(@, [pc |-> "accepted", type |-> f.type])]
    IN  IF f.type = "video"
          THEN [started EXCEPT !.isConverting = TRUE, !.runs[r].pc = "converting"]
        ELSE IF f.type # "audio"
          THEN [started EXCEPT
                  !.error = <<"Unsupported file type. Please upload an audio or video file.">>,
                  !.runs[r].pc = "refused"]
        ELSE BeginTranscription(started, r, f.large)

\* the steps of the page leave these alone
HomeOnly ==
    /\ UNCHANGED <<chunkerVars, runVars, callVars, transcribedChunks, exportVars,
                   cliVars>>
    /\ page' = page
    /\ converter' = converter

\* a file is dragged onto the drop zone, or chosen after a click on it
DropByPointer ==
    /\ Len(homePage.runs) < MaxRuns
    /\ ~DropZoneDisabled(homePage)
    /\ ~PointerEventsNone(homePage)
    /\ \E f \in DroppedFiles : homePage' = Accepted(homePage, f)
    /\ HomeOnly

\* the drop zone has the focus, Enter or Space opens the file dialog and a
\* file is chosen: the root's key handler is there unless the zone is disabled
DropByKeyboard ==
    /\ Len(homePage.runs) < MaxRuns
    /\ ~DropZoneDisabled(homePage)
    /\ \E f \in DroppedFiles : homePage' = Accepted(homePage, f)
    /\ HomeOnly

\* extractAudioFromVideo resolved for run r: the flag is cleared and the
\* transcription of the extracted audio starts
ExtractionResolved ==
    /\ \E r \in 1..Len(homePage.runs), large \in BOOLEAN :
          /\ homePage.runs[r].pc = "converting"
          /\ homePage' =
                BeginTranscription([homePage EXCEPT !.isConverting = FALSE], r, large)
    /\ HomeOnly

\* extractAudioFromVideo rejected for run r: the catch block
ExtractionRejected ==
    /\ \E r \in 1..Len(homePage.runs) :
          /\ homePage.runs[r].pc = "converting"
          /\ homePage' = [homePage EXCEPT
                            !.isConverting = FALSE,
                            !.error = <<"Failed to extract audio from video">>,
                            !.runs[r].pc = "failed"]
    /\ HomeOnly

\* transcribeAudio resolved for run r, with a text or with an error: finally
SingleSettled ==
    /\ \E r \in 1..Len(homePage.runs), message \in {<<>>, <<BackendMessage>>} :
          /\ homePage.runs[r].pc = "single"
          /\ homePage' = [homePage EXCEPT !.isProcessing = FALSE,
                                          !.error = IF message = <<>> THEN @ ELSE message,
                                          !.runs[r].pc = "done"]
    /\ HomeOnly

\* transcribeAudioInChunks resolved for run r, with or without an error: finally
ChunkedSettled ==
    /\ \E r \in 1..Len(homePage.runs),
          message \in {<<>>, <<"Some chunks failed to transcribe">>} :
          /\ homePage.runs[r].pc = "chunked"
          /\ homePage' = [homePage EXCEPT !.isChunkedProcessing = FALSE,
                                          !.error = IF message = <<>> THEN @ ELSE message,
                                          !.runs[r].pc = "done"]
    /\ HomeOnly

InitPage ==
    /\ AtRest
    /\ pc = "idle"
    /\ outcome = Null
    /\ seconds = 0
    /\ exported = NoExport
    /\ fileName = <<>>
    /\ now = 0
    /\ earlier = NoExport
    /\ page = [pc |-> "idle", type |-> "audio", large |-> FALSE, apiKey |-> NoKey,
               error |-> <<>>]
    /\ converter = NoConversion
    /\ CliAtRest
    /\ \E key \in {NoKey, ValidKey} : homePage = [NoRuns EXCEPT !.apiKey = key]

NextPage ==
    \/ DropByPointer
    \/ DropByKeyboard
    \/ ExtractionResolved
    \/ ExtractionRejected
    \/ SingleSettled
    \/ ChunkedSettled

SpecPage == InitPage /\ [][NextPage]_vars

----------------------------------------------------------------------------
(* cli/transcribe-chunked.js : transcribeInChunks from its try block on.      *)
(* Times are in milliseconds: ffprobe prints the duration with decimals.      *)

\* const chunkDuration = 600, in seconds
cliChunkDuration == 600
ChunkMillis == cliChunkDuration * 1000

\* the durations ffprobe reports for the audio file
Durations ==
    {c * ChunkMillis + d : c \in 0..(MaxSplitChunks - 1), d \in {0, 500}}
      \cup {MaxSplitChunks * ChunkMillis}

\* Math.ceil(totalDuration / chunkDuration)
NumChunks(totalDuration) == (totalDuration + ChunkMillis - 1) \div ChunkMillis

\* the object pushed for chunk i of the split loop
SplitChunk(index, totalDuration) ==
    [startTime |-> index * ChunkMillis,
     endTime |-> Min(index * ChunkMillis + ChunkMillis, totalDuration),
     index |-> index]

\* the split loop: for (let i = 0; i < numChunks; i++) chunks.push(...)
SplitChunks(numChunks, totalDuration) ==
    [k \in 1..numChunks |-> SplitChunk(k - 1, totalDuration)]

\* what the backend answers for one chunk: a text with its segments, timed
\* from the start of the chunk, or with no segments field
BackendSegments ==
    {<<>>,
     <<[start |-> 0, end |-> 2500]>>,
     <<[start |-> 0, end |-> 2500], [start |-> 2500, end |-> 4000]>>}
BackendResponses ==
    [segments : BackendSegments, given : {TRUE}, error : {NoError}]
      \cup {[segments |-> <<>>, given |-> FALSE, error |-> NoError]}

\* the request was rejected
NoResponse == [segments |-> <<>>, given |-> FALSE, error |-> BackendMessage]

\* response.segments.forEach(segment => { segment.start += chunk.startTime;
\* segment.end += chunk.startTime })
ShiftSegments(segments, startTime) ==
    [j \in 1..Len(segments) |-> [start |-> segments[j].start + startTime,
                                 end |-> segments[j].end + startTime]]

\* the entry pushed after a response
Transcribed(chunk, index, response) ==
    [chunkIndex |-> index,
     startTime |-> chunk.startTime,
     endTime |-> chunk.endTime,
     text |-> <<"text">>,
     segments |-> IF response.given
                    THEN ShiftSegments(response.segments, chunk.startTime)
                    ELSE <<>>]

\* the entry pushed in the catch block
Untranscribed(chunk, index) ==
    [chunkIndex |-> index,
     startTime |-> chunk.startTime,
     endTime |-> chunk.endTime,
     text |-> <<"[Error transcribing chunk ">> \o NumberToString(index + 1)
               \o <<": ", BackendMessage, "]">>,
     segments |-> <<>>]

\* the steps of transcribeInChunks leave these alone
SplitterOnly ==
    /\ UNCHANGED <<chunkerVars, runVars, callVars, transcribedChunks, exportVars,
                   pageVars>>
    /\ UNCHANGED <<transcriber, disk, collector, session>>

\* after chunk i: the next request, or the transcripts are written
AfterChunk(s) ==
    IF s.i < Len(s.chunks) THEN s ELSE [s EXCEPT !.pc = "done"]

\* ffprobe or one ffmpeg call throws: the outer catch, process.exit(1)
SplitFails ==
    /\ splitter.pc = "start"
    /\ splitter' = [splitter EXCEPT !.pc = "exit1"]
    /\ SplitterOnly

\* ffprobe and every ffmpeg call return: the chunks are listed and the first
\* request is sent
SplitAudio ==
    /\ splitter.pc = "start"
    /\ LET numChunks == NumChunks(splitter.totalDuration)
       IN  splitter' = AfterChunk([splitter EXCEPT
                           !.pc = "transcribing",
                           !.numChunks = numChunks,
                           !.chunks = SplitChunks(numChunks, splitter.totalDuration)])
    /\ SplitterOnly

\* openai.audio.transcriptions.create resolved for chunk i
ChunkTranscribed ==
    /\ splitter.pc = "transcribing"
    /\ \E response \in BackendResponses :
          LET chunk == splitter.chunks[splitter.i + 1]
          IN  splitter' = AfterChunk([splitter EXCEPT
                  !.transcriptions = Append(@, Transcribed(chunk, splitter.i, response)),
                  !.responses = Append(@, response),
                  !.i = @ + 1])
    /\ SplitterOnly

\* the same step with a plausible bug: a failed chunk leaves no entry
ChunkFailedSkipped ==
    /\ splitter.pc = "transcribing"
    /\ splitter' = AfterChunk([splitter EXCEPT !.responses = Append(@, NoResponse),
                                               !.i = @ + 1])
    /\ SplitterOnly

\* openai.audio.transcriptions.create rejected for chunk i: the inner catch
ChunkFailed ==
    /\ splitter.pc = "transcribing"
    /\ LET chunk == splitter.chunks[splitter.i + 1]
       IN  splitter' = AfterChunk([splitter EXCEPT
                  !.transcriptions = Append(@, Untranscribed(chunk, splitter.i)),
                  !.responses = Append(@, NoResponse),
                  !.i = @ + 1])
    /\ SplitterOnly

InitSplit ==
    /\ AtRest
    /\ pc = "idle"
    /\ outcome = Null
    /\ seconds = 0
    /\ exported = NoExport
    /\ fileName = <<>>
    /\ now = 0
    /\ earlier = NoExport
    /\ PageAtRest
    /\ transcriber = NoTranscriber
    /\ disk = {}
    /\ collector = NoCollector
    /\ session = NoSession
    /\ \E duration \in Durations :
          splitter = [NoSplitter EXCEPT !.pc = "start", !.totalDuration = duration]

NextSplit ==
    \/ SplitFails
    \/ SplitAudio
    \/ ChunkTranscribed
    \/ ChunkFailed

SpecSplit == InitSplit /\ [][NextSplit]_vars

----------------------------------------------------------------------------
(* cli/tiktok-collect-urls.js : main from openContext on, with its login loop *)

\* the attempts made when --login-attempts is absent or falsy
DefaultLoginAttempts == 10

\* Number.parseInt(text, 10) of a text that may start with a minus sign
parseSignedInt(text) ==
    IF text # <<>> /\ text[1] = "-"
      THEN IF parseInt(Tail(text)) = NotANumber THEN NotANumber
           ELSE 0 - parseInt(Tail(text))
      ELSE parseInt(text)

\* Number.parseInt(args["login-attempts"] || ... || 10, 10) || 10
LoginAttemptsOption(arg) ==
    LET given == IF arg = <<>> THEN DefaultLoginAttempts ELSE parseSignedInt(arg)
    IN  IF given \in {NotANumber, 0} THEN DefaultLoginAttempts ELSE given

\* the values of --login-attempts on the command line
LoginArgs ==
    {<<>>, <<"0">>, <<"-", "3">>, <<"x">>} \cup {NumberToString(n) : n \in 1..MaxLoginArg}

\* the reasons attemptLogin returns with success: false
FailureReasons == {"rate_limited", "auth_ui_present", "exception"}

\* closeContext(context) in the finally block, then main returns
CloseContext(s) ==
    [s EXCEPT !.pc = "exited",
              !.context = IF @ = "open" THEN "closed" ELSE @,
              !.browser = IF s.context = "open" /\ s.shouldClose THEN "closed" ELSE @]

\* process.exitCode = 1, then the finally block
Abort(s) == CloseContext([s EXCEPT !.exitCode = 1])

\* after the while loop: if (!loginOutcome.success) abort, else navigate
AfterLoop(s) ==
    IF s.loginOutcome.success THEN [s EXCEPT !.pc = "navigating"] ELSE Abort(s)

\* the head of the while loop: attempt += 1 and attemptLogin is called
LoopHead(s) ==
    IF s.attempt < s.maxLoginAttempts
      THEN [s EXCEPT !.attempt = @ + 1, !.pc = "attempting"]
      ELSE AfterLoop(s)

\* the steps of main leave these alone
SessionOnly ==
    /\ UNCHANGED <<chunkerVars, runVars, callVars, transcribedChunks, exportVars,
                   pageVars>>
    /\ UNCHANGED <<transcriber, disk, collector, splitter>>

\* openContext throws: catch and finally with no context
OpenContextFails ==
    /\ session.pc = "start"
    /\ session' = Abort(session)
    /\ SessionOnly

\* openContext returns a context, its own or a persistent one
OpenContextReturned ==
    /\ session.pc = "start"
    /\ LET opened == [session EXCEPT
                        !.context = "open",
                        !.browser = IF session.shouldClose THEN "open" ELSE @]
       IN  session' = IF session.loginRequested THEN LoopHead(opened)
                      ELSE [opened EXCEPT !.pc = "navigating"]
    /\ SessionOnly

\* attemptLogin returns { success: true }
AttemptSucceeds ==
    /\ session.pc = "attempting"
    /\ session' = AfterLoop([session EXCEPT !.loginOutcome = [success |-> TRUE,
                                                               reason |-> "none"]])
    /\ SessionOnly

\* the same step with a plausible bug: the wait follows every failed attempt
AttemptFailsAlwaysWaits ==
    /\ session.pc = "attempting"
    /\ \E reason \in FailureReasons :
          session' = [session EXCEPT
                        !.loginOutcome = [success |-> FALSE, reason |-> reason],
                        !.waits = @ + 1, !.pc = "waiting"]
    /\ SessionOnly

\* attemptLogin returns { success: false }: the loop ends after the last
\* attempt, else the retry wait starts
AttemptFails ==
    /\ session.pc = "attempting"
    /\ \E reason \in FailureReasons :
          LET failed == [session EXCEPT
                           !.loginOutcome = [success |-> FALSE, reason |-> reason]]
          IN  session' = IF failed.attempt >= failed.maxLoginAttempts
                           THEN AfterLoop(failed)
                           ELSE [failed EXCEPT !.waits = @ + 1, !.pc = "waiting"]
    /\ SessionOnly

\* the retry wait is over, the cookies are cleared and a new page is opened
RetryWaitElapsed ==
    /\ session.pc = "waiting"
    /\ session' = LoopHead(session)
    /\ SessionOnly

\* context.newPage, page.goto or collectVideoUrls throws: the catch block
MainCatches ==
    /\ session.pc \in {"waiting", "navigating", "collecting"}
    /\ session' = Abort(session)
    /\ SessionOnly

\* page.goto(profileUrl) returned; with a login, assertLoggedIn passes or throws
Navigated ==
    /\ session.pc = "navigating"
    /\ \E loggedIn \in BOOLEAN :
          session' = IF session.loginRequested /\ ~loggedIn
                       THEN Abort(session)
                       ELSE [session EXCEPT !.pc = "collecting", !.collecting = TRUE]
    /\ SessionOnly

\* collectVideoUrls returned: the URL file is written unless the list is empty
UrlsCollected ==
    /\ session.pc = "collecting"
    /\ \E found \in 0..1 :
          session' = CloseContext([session EXCEPT !.written = found > 0])
    /\ SessionOnly

InitLogin ==
    /\ AtRest
    /\ pc = "idle"
    /\ outcome = Null
    /\ seconds = 0
    /\ exported = NoExport
    /\ fileName = <<>>
    /\ now = 0
    /\ earlier = NoExport
    /\ PageAtRest
    /\ transcriber = NoTranscriber
    /\ disk = {}
    /\ collector = NoCollector
    /\ splitter = NoSplitter
    /\ \E arg \in LoginArgs, autoLogin \in BOOLEAN, credentials \in BOOLEAN,
          userDataDir \in BOOLEAN :
          session = [NoSession EXCEPT !.pc = "start",
                                      !.loginRequested = autoLogin /\ credentials,
                                      !.maxLoginAttempts = LoginAttemptsOption(arg),
                                      !.shouldClose = ~userDataDir]

NextLogin ==
    \/ OpenContextFails
    \/ OpenContextReturned
    \/ AttemptSucceeds
    \/ AttemptFails
    \/ RetryWaitElapsed
    \/ MainCatches
    \/ Navigated
    \/ UrlsCollected

SpecLogin == InitLogin /\ [][NextLogin]_vars

----------------------------------------------------------------------------
(* Properties of the segmenter *)

\* createAudioChunks passed its size check (it is walking or has returned)
Segmenting == chunkerPc = "walking" \/ (chunkerPc \in {"closing", "resolved"} /\ chunkError = NoError)

\* createAudioChunks has returned its list
Segmented == chunkerPc \in {"closing", "resolved"} /\ chunkError = NoError

SizeError == chunkError = "Failed to process audio file: Chunk size calculation error"

\* the walk cursor of the chunk at position k (1-based) of the list
CursorOf(k) == (k - 1) * chunkDuration

\* C1: every emitted chunk's encoded WAV blob is at most maxChunkSize bytes long,
\* whatever the sample rate, channel count, chunk duration, overlap and source
\* duration.
C1_BlobWithinBudget ==
    \A k \in 1..Len(chunks) : chunks[k].blob.size <= MaxChunkSize(options)

\* C2: segmentation fails with the size error, before any segment is produced,
\* exactly when chunkDuration * bytesPerSecond + 44 exceeds maxChunkSize; otherwise
\* that estimate is within maxChunkSize.
C2_SizeCheckExact ==
    (Segmenting \/ chunkerPc = "rejected" \/ (chunkerPc = "closing" /\ chunkError # NoError))
    =>
    LET estimateTimesTicks ==
            chunkDuration * file.audio.sampleRate * file.audio.numberOfChannels * 2
                + 44 * TicksPerSecond
        budgetTimesTicks ==
            (IF options.maxChunkSize = 0 THEN 20 * 1024 * 1024 ELSE options.maxChunkSize)
                * TicksPerSecond
    IN  /\ SizeError <=> estimateTimesTicks > budgetTimesTicks
        /\ SizeError => chunks = <<>>
        /\ chunks # <<>> => estimateTimesTicks <= budgetTimesTicks

C2_Witness ==
    /\ chunkerPc = "rejected"
    /\ SizeError
    /\ chunks = <<>>
    /\ file.audio.duration > 0

\* C3: for a source of duration D > 0 the greatest endTime of the segments is D:
\* the last segment ends at D, no segment ends after D, and the last one is
\* shorter than the cadence when D is no multiple of it; for D = 0 there is no
\* segment.
C3_TailReachesDuration ==
    Segmented =>
        LET D == file.audio.duration
            n == Len(chunks)
        IN  IF D = 0
              THEN n = 0
              ELSE /\ n >= 1
                   /\ chunks[n].endTime = D
                   /\ \A k \in 1..n : chunks[k].endTime <= D
                   /\ D % chunkDuration # 0 => D - CursorOf(n) < chunkDuration

C3_Witness ==
    /\ Segmented
    /\ Len(chunks) >= 2
    /\ file.audio.duration % chunkDuration # 0
    /\ chunks[Len(chunks)].endTime = file.audio.duration

\* C4: the segment produced at walk cursor t reports startTime = max(0, t - overlap)
\* and endTime = min(totalDuration, t + effectiveDuration); the 130 s source cut
\* with 120 s chunks and 5 s overlap yields exactly [0,120) and [115,130).
C4_ReportedBoundaries ==
    /\ \A k \in 1..Len(chunks) :
          /\ chunks[k].startTime = Max(0, CursorOf(k) - options.overlapSeconds)
          /\ chunks[k].endTime = Min(file.audio.duration, CursorOf(k) + chunkDuration)
    /\ (Segmented /\ file.audio = ScenarioBuffer /\ options = ScenarioOptions) =>
          /\ Len(chunks) = 2
          /\ chunks[1].startTime = 0
          /\ chunks[1].endTime = 120 * TicksPerSecond
          /\ chunks[2].startTime = 115 * TicksPerSecond
          /\ chunks[2].endTime = 130 * TicksPerSecond

\* C5: in the segment list, index is the position in the list, startTime does not
\* decrease from one segment to the next, endTime > startTime, and both lie in
\* [0, totalDuration].
C5_OrderedWithinSource ==
    \A k \in 1..Len(chunks) :
        /\ chunks[k].index = k - 1
        /\ k < Len(chunks) => chunks[k + 1].startTime >= chunks[k].startTime
        /\ chunks[k].endTime > chunks[k].startTime
        /\ 0 <= chunks[k].startTime /\ chunks[k].startTime <= file.audio.duration
        /\ 0 <= chunks[k].endTime /\ chunks[k].endTime <= file.audio.duration

C5_Witness ==
    /\ Segmented
    /\ Len(chunks) >= 3
    /\ options.overlapSeconds > 0
    /\ chunks[3].startTime > chunks[2].startTime

\* C6: the duration used to cut segments is
\* max(5, min(chunkDurationSeconds, maxDurationForSize)), where maxDurationForSize
\* is the whole number n of seconds with n * bytesPerSecond <= 0.95 * maxChunkSize
\* - 44 < (n + 1) * bytesPerSecond; when that number is 3 the duration is 5 s.
C6_EffectiveDuration ==
    (chunkerPc \in {"walking", "closing", "resolved", "rejected"} /\ file.readable /\ file.decodable)
    =>
    LET budget == IF options.maxChunkSize = 0 THEN 20 * 1024 * 1024 ELSE options.maxChunkSize
        num == 95 * budget - 4400
        den == 100 * file.audio.sampleRate * file.audio.numberOfChannels * 2
        wanted == options.chunkDurationSeconds
        \* the whole seconds that cover the wanted duration
        wantedSeconds == (wanted + TicksPerSecond - 1) \div TicksPerSecond
        byteSeconds == CHOOSE n \in -25..wantedSeconds : n * den <= num /\ num < (n + 1) * den
        capped == IF wantedSeconds * den <= num THEN wanted
                  ELSE Min(wanted, byteSeconds * TicksPerSecond)
    IN  /\ chunkDuration = Max(5 * TicksPerSecond, capped)
        /\ (3 * den <= num /\ num < 4 * den) => chunkDuration = 5 * TicksPerSecond

C6_Witness ==
    /\ Segmented
    /\ Len(chunks) >= 2
    /\ LET num == 95 * options.maxChunkSize - 4400
           den == 100 * file.audio.sampleRate * file.audio.numberOfChannels * 2
       IN  3 * den <= num /\ num < 4 * den
    /\ options.chunkDurationSeconds > 5 * TicksPerSecond
    /\ chunkDuration = 5 * TicksPerSecond
    /\ chunks[1].endTime = 5 * TicksPerSecond

----------------------------------------------------------------------------
(* Properties of the chunked run *)

\* the number of backend requests that have been issued and have not completed
Outstanding == (IF active = NoRequest THEN 0 ELSE 1) + stale

\* this step issues a backend request
Requests == active' # NoRequest /\ active' # active

\* this step issues a backend request for a segment
Submits == Requests /\ active'.chunk >= 0

\* s is a prefix of t
IsPrefix(s, t) == Len(s) <= Len(t) /\ SubSeq(t, 1, Len(s)) = s

\* C7: segments are submitted in index order 0..N-1: the first attempt for a
\* segment is issued only when the results of exactly the earlier segments
\* have been appended, a later attempt only for the segment whose result is
\* next, and a run that completes has a result for every segment.
C7_SequentialSubmission ==
    /\ [][Submits =>
            /\ active'.chunk \in 0..(Len(chunks) - 1)
            /\ Len(chunkResults') = active'.chunk
            /\ \A k \in 1..Len(chunkResults') : chunkResults'[k].chunkIndex = k - 1
            /\ active'.attempt = 0 => result' = Null
            /\ active'.attempt > 0 => (result'.error # NoError /\ i' = active'.chunk)
         ]_vars
    /\ [](pc = "done" => Len(outcome.chunks) = Len(chunks))

C7_Witness ==
    /\ active = [chunk |-> 2, attempt |-> 0]
    /\ Len(chunkResults) = 2
    /\ chunkResults[2].error # NoError

\* C8: at most one backend request is outstanding at any moment, a request whose
\* 60 s timeout has fired included.
C8_SingleOutstandingRequest == Outstanding <= 1

\* C9: a completed run over N >= 1 segments returns exactly N results, the one
\* at position i with chunkIndex i and the startTime and endTime of segment i;
\* during the run the result list is only appended to.
C9_OneResultPerSegment ==
    /\ [](pc = "done" =>
            /\ Len(chunks) >= 1
            /\ Len(outcome.chunks) = Len(chunks)
            /\ \A k \in 1..Len(chunks) :
                  /\ outcome.chunks[k].chunkIndex = k - 1
                  /\ outcome.chunks[k].startTime = chunks[k].startTime
                  /\ outcome.chunks[k].endTime = chunks[k].endTime)
    /\ [][IsPrefix(chunkResults, chunkResults') /\ Len(chunkResults') <= Len(chunkResults) + 1]_vars

C9_Witness ==
    /\ pc = "done"
    /\ Len(chunks) >= 3
    /\ Len(outcome.chunks) = Len(chunks)
    /\ outcome.chunks[2].error # NoError
    /\ outcome.chunks[3].error = NoError

\* C10: a segment that fails on every attempt does not abort the run: the run
\* fails only when chunking failed, a recorded failure leaves the run going, and
\* the completed run has one result per segment; with 4 segments of which only
\* index 2 failed, fullText is the space-joined text of 0, 1 and 3, error is set
\* and segments has length 4.
C10_FailureDoesNotAbort ==
    /\ pc = "failed" => (chunkerPc = "rejected" \/ Len(chunks) = 0) /\ chunkResults = <<>>
    /\ (Len(chunkResults) > 0 /\ chunkResults[Len(chunkResults)].error # NoError) =>
          /\ hasError
          /\ chunkResults[Len(chunkResults)].text = <<>>
          /\ Len(chunkResults) < Len(chunks) => pc \in {"pacing", "awaiting", "backoff"}
          /\ Len(chunkResults) = Len(chunks) => pc = "done"
    /\ pc = "done" =>
          /\ Len(outcome.chunks) = Len(chunks)
          /\ (\E k \in 1..Len(chunks) : outcome.chunks[k].error # NoError)
                => outcome.error = "Some chunks failed to transcribe"
    /\ LET bare(t) == IF t = <<" ", "b", " ">> THEN <<"b">> ELSE t
           r == outcome.chunks
       IN  (/\ pc = "done"
            /\ Len(chunks) = 4
            /\ r[3].error # NoError
            /\ \A k \in {1, 2, 4} : r[k].error = NoError /\ r[k].text # <<" ">>)
           => /\ outcome.fullText =
                    bare(r[1].text) \o <<" ">> \o bare(r[2].text) \o <<" ">> \o bare(r[4].text)
              /\ outcome.error # NoError
              /\ Len(r) = 4

C10_Witness ==
    /\ pc = "done"
    /\ Len(chunks) = 4
    /\ Len(outcome.chunks) = 4
    /\ outcome.chunks[3].error = BackendMessage
    /\ outcome.chunks[1].text = <<"a">>
    /\ outcome.chunks[2].text = <<" ", "b", " ">>
    /\ outcome.chunks[4].text = <<"a">>
    /\ outcome.fullText = <<"a", " ", "b", " ", "a">>
    /\ outcome.error # NoError

\* this step is the return of the awaited attempt to the retry loop
AttemptReturns == pc = "awaiting" /\ active # NoRequest /\ active' = NoRequest

\* C11: each segment gets at least one and at most 3 backend attempts (1 initial
\* + 2 retries): a result is recorded only by a returning attempt for that
\* segment, a retry is issued only out of the 2-second wait that a failed attempt
\* entered, a successful attempt ends the retry loop, and the last attempt is
\* followed by no wait.
C11_BoundedRetries ==
    [][/\ Submits =>
            /\ active'.attempt \in 0..maxRetries
            /\ active'.attempt = 0 => pc \in {"chunking", "pacing"}
            /\ active'.attempt > 0 =>
                  /\ pc = "backoff"
                  /\ result.error # NoError
                  /\ active'.chunk = chunks[i + 1].index
                  /\ active'.attempt = retries
       /\ Len(chunkResults') > Len(chunkResults) =>
            /\ AttemptReturns
            /\ chunkResults'[Len(chunkResults')].chunkIndex = active.chunk
       /\ AttemptReturns =>
            /\ result'.error = NoError => pc' \in {"pacing", "done"}
            /\ pc' = "backoff" <=> (result'.error # NoError /\ active.attempt < maxRetries)
            /\ active.attempt = maxRetries => pc' \in {"pacing", "done"}
       /\ (pc = "backoff" /\ pc' # "backoff") =>
            (pc' = "awaiting" /\ Submits /\ active'.attempt = retries)
      ]_vars

C11_Witness ==
    /\ pc = "pacing"
    /\ retries = maxRetries + 1
    /\ chunkResults[Len(chunkResults)].error # NoError

C13_LastErrorRecorded ==
    [][(/\ AttemptReturns
        /\ Len(chunkResults') > Len(chunkResults)
        /\ chunkResults'[Len(chunkResults')].error # NoError) =>
          /\ active.attempt = maxRetries
          /\ chunkResults'[Len(chunkResults')].text = <<>>
          /\ IF stale' = stale + 1
               THEN chunkResults'[Len(chunkResults')].error = TimeoutMessage
               ELSE /\ chunkResults'[Len(chunkResults')].error # TimeoutMessage
                    /\ chunkResults'[Len(chunkResults')].error
                          = (IF apiKey = InvalidKey THEN AuthMessage ELSE BackendMessage)
      ]_vars

C13_Witness ==
    /\ pc \in {"pacing", "done"}
    /\ Len(chunkResults) = 1
    /\ retries = maxRetries + 1
    /\ stale = 2
    /\ chunkResults[1].error = BackendMessage

\* the text of a result without the blanks around it, for the texts of the model
Bare(text) ==
    IF text = <<" ", "b", " ">> THEN <<"b">>
    ELSE IF text = <<" ">> THEN <<>>
    ELSE text

\* the bare texts of the results that have no error and are not blank, in list
\* order, with one space between two of them
RECURSIVE Merged(_)
Merged(results) ==
    IF results = <<>> THEN <<>>
    ELSE LET rest == Merged(Tail(results))
             bare == IF Head(results).error = NoError
                       THEN Bare(Head(results).text) ELSE <<>>
         IN  IF bare = <<>> THEN rest
             ELSE IF rest = <<>> THEN bare
             ELSE bare \o <<" ">> \o rest

\* one bullet line per result, in list order
RECURSIVE Bulleted(_)
Bulleted(results) ==
    IF results = <<>> THEN <<>>
    ELSE <<"* ">> \o Head(results).text
            \o (IF Len(results) = 1 THEN <<>> ELSE <<"\n">> \o Bulleted(Tail(results)))

\* the results of the outcome are in increasing chunkIndex order
InIndexOrder ==
    \A k \in 1..Len(outcome.chunks) : outcome.chunks[k].chunkIndex = k - 1

\* C14: fullText of a completed run equals the texts of exactly those segments
\* that have no error and a non-empty trimmed text, each trimmed, taken in
\* increasing chunkIndex order and joined by single spaces (empty if none).
C14_FullTextMerge ==
    pc = "done" => (InIndexOrder /\ outcome.fullText = Merged(outcome.chunks))

\* C14 as the code has it: the merge rule holds for a completed run of the
\* remote path; a completed run of the placeholder path (no key, or mode
\* 'local') has as fullText a banner naming the number of chunks followed by one
\* bullet line per segment, which is not the space-joined text of its segments.
C14_FullTextByPath ==
    pc = "done" =>
        /\ InIndexOrder
        /\ IF apiKey = NoKey \/ mode = "local"
             THEN /\ outcome.fullText =
                        <<"This is a simulated transcription for your large audio file split into ">>
                            \o NumberToString(Len(chunks)) \o <<" chunks.", "\n">>
                            \o Bulleted(outcome.chunks)
                  /\ outcome.fullText # Merged(outcome.chunks)
             ELSE outcome.fullText = Merged(outcome.chunks)

C14_Witness ==
    /\ pc = "done"
    /\ apiKey = ValidKey
    /\ Len(outcome.chunks) = 4
    /\ outcome.chunks[1].text = <<" ", "b", " ">>
    /\ outcome.chunks[2].error # NoError
    /\ outcome.chunks[3].text = <<" ">>
    /\ outcome.chunks[4].text = <<"a">>
    /\ outcome.fullText = <<"b", " ", "a">>

\* C15: for every run that completes the submission loop, the aggregate error of
\* the outcome is set if and only if at least one result in its list carries an
\* error; it is then the fixed partial-failure message.
C15_AggregateErrorIffSegmentError ==
    pc = "done" =>
        LET failedSegments == {k \in 1..Len(outcome.chunks) : outcome.chunks[k].error # NoError}
        IN  /\ outcome.error # NoError <=> failedSegments # {}
            /\ outcome.error \in {NoError, "Some chunks failed to transcribe"}

C15_Witness ==
    /\ pc = "done"
    /\ Len(outcome.chunks) >= 3
    /\ outcome.chunks[1].error # NoError
    /\ \A k \in 2..Len(outcome.chunks) : outcome.chunks[k].error = NoError
    /\ outcome.error = "Some chunks failed to transcribe"

\* C16: without an API key no backend request is ever issued, by
\* transcribeAudio or by transcribeAudioInChunks, whatever the mode (mode
\* 'openai' included); the placeholder path runs instead: transcribeAudio
\* returns the simulated text, and the chunked run returns one placeholder
\* result per segment, in segment order, with the segment's times.
C16_NoKeyNoBackend ==
    /\ [](apiKey = NoKey => (active = NoRequest /\ stale = 0))
    /\ [][apiKey = NoKey => ~Requests]_vars
    /\ [](apiKey = NoKey => pc \notin {"awaiting", "awaitingDirect", "backoff", "pacing"})
    /\ []((apiKey = NoKey /\ pc = "returned") =>
            (result.error = NoError /\ result.text = SimulatedText))
    /\ []((apiKey = NoKey /\ pc = "done") =>
            /\ Len(chunks) >= 1
            /\ Len(outcome.chunks) = Len(chunks)
            /\ outcome.error = NoError
            /\ \A k \in 1..Len(chunks) :
                  /\ outcome.chunks[k].chunkIndex = chunks[k].index
                  /\ outcome.chunks[k].startTime = chunks[k].startTime
                  /\ outcome.chunks[k].endTime = chunks[k].endTime
                  /\ outcome.chunks[k].error = NoError
                  /\ SubSeq(outcome.chunks[k].text, 1, 2) =
                        <<"Simulated transcription for chunk ", DigitChars[k + 1]>>)

C16_Witness ==
    /\ apiKey = NoKey
    /\ mode = "openai"
    /\ pc = "done"
    /\ Len(outcome.chunks) = 3
    /\ active = NoRequest

\* C17: when decoding fails or the segmenter raises its size error the run goes
\* to the failed state with no partial result: no backend request was or is
\* ever issued, no result was recorded, and the outcome has an empty fullText,
\* no segments, totalDuration 0 and the error of the failure; the failed state
\* is final.
C17_ChunkingFailureFailsRun ==
    /\ [](chunkerPc = "rejected" =>
            /\ pc \in {"chunking", "failed"}
            /\ chunkError # NoError
            /\ active = NoRequest /\ stale = 0
            /\ chunkResults = <<>> /\ transcribedChunks = <<>>)
    /\ [](pc = "failed" =>
            /\ outcome.fullText = <<>>
            /\ outcome.chunks = <<>>
            /\ outcome.totalDuration = 0
            /\ outcome.error # NoError
            /\ chunkerPc = "rejected" => outcome.error = chunkError)
    /\ [][(chunkerPc = "rejected" /\ pc = "chunking") => pc' = "failed"]_vars
    /\ [][pc = "failed" => (pc' = "failed" /\ outcome' = outcome /\ ~Requests)]_vars

C17_Witness ==
    /\ pc = "failed"
    /\ SizeError
    /\ file.decodable
    /\ outcome.error = chunkError
    /\ outcome.chunks = <<>>

----------------------------------------------------------------------------
(* Properties of the exporters and of the time formatters *)

\* k < 100 in two decimal digits
TwoDigits(k) == <<DigitChars[(k \div 10) + 1], DigitChars[(k % 10) + 1]>>

\* k < 1000 in three decimal digits
ThreeDigits(k) ==
    <<DigitChars[(k \div 100) + 1], DigitChars[((k \div 10) % 10) + 1],
      DigitChars[(k % 10) + 1]>>

\* the positions in the outcome of the chunks with no error and a text that is
\* not blank
Included ==
    {k \in 1..Len(outcome.chunks) :
        outcome.chunks[k].error = NoError /\ Bare(outcome.chunks[k].text) # <<>>}

\* the j-th of these positions
IncludedAt(j) ==
    CHOOSE k \in Included : Cardinality({m \in Included : m < k}) = j - 1

\* C18: the SRT and VTT exports contain exactly the chunks that have no error
\* and a text that is not blank, in their original order, each with its trimmed
\* text and its own start time, and the SRT cues are numbered 1..k without gaps
\* whatever the chunkIndex of their chunks.
C18_SubtitleExports ==
    exported.format \in {"srt", "vtt"} =>
        /\ Len(exported.cues) = Cardinality(Included)
        /\ \A j \in 1..Len(exported.cues) :
              LET chunk == outcome.chunks[IncludedAt(j)]
                  startSecs == TwoDigits(chunk.chunkIndex * 5)
              IN  /\ exported.cues[j].text = Bare(chunk.text)
                  /\ exported.format = "srt" =>
                        /\ exported.cues[j].number = j
                        /\ exported.cues[j].start =
                              <<"0", "0", ":", "0", "0", ":">> \o startSecs
                                  \o <<",", "0", "0", "0">>
                  /\ exported.format = "vtt" =>
                        exported.cues[j].start =
                            <<"0", "0", ":">> \o startSecs \o <<".", "0", "0", "0">>

C18_Witness ==
    /\ exported.format = "srt"
    /\ Len(outcome.chunks) = 3
    /\ outcome.chunks[2].error # NoError
    /\ Included = {1, 3}
    /\ Len(exported.cues) = 2
    /\ exported.cues[1].number = 1
    /\ exported.cues[2].number = 2
    /\ exported.cues[2].text = Bare(outcome.chunks[3].text)

\* C19: the JSON export has one entry per result of the outcome, in the same
\* order, with the result's chunkIndex as index and with its times; an errored
\* result is included with its error and an empty text, another one with its
\* text and no error.
C19_JsonKeepsEveryChunk ==
    exported.format = "json" =>
        /\ Len(exported.chunks) = Len(outcome.chunks)
        /\ \A k \in 1..Len(outcome.chunks) :
              /\ exported.chunks[k].index = outcome.chunks[k].chunkIndex
              /\ exported.chunks[k].index = k - 1
              /\ exported.chunks[k].startTime = outcome.chunks[k].startTime
              /\ exported.chunks[k].endTime = outcome.chunks[k].endTime
              /\ exported.chunks[k].error = outcome.chunks[k].error
              /\ IF outcome.chunks[k].error # NoError
                   THEN exported.chunks[k].text = <<>>
                   ELSE exported.chunks[k].text = outcome.chunks[k].text

C19_Witness ==
    /\ exported.format = "json"
    /\ Len(outcome.chunks) = 3
    /\ outcome.chunks[2].error # NoError
    /\ Len(exported.chunks) = 3
    /\ exported.chunks[2].error = BackendMessage
    /\ exported.chunks[2].text = <<>>
    /\ exported.chunks[3].index = 2

\* C20: formatSRTTime, in the web exporter and in the CLI alike, maps every
\* time t >= 0 given with millisecond resolution to HH:MM:SS,mmm with
\* HH = floor(t / 3600) in two digits, MM and SS in 00..59 and mmm the
\* millisecond part of t.
C20_FormatSRTTime ==
    exported.format = "time" =>
        exported.text =
            TwoDigits(seconds \div 3600000) \o <<":">>
                \o TwoDigits((seconds \div 60000) % 60) \o <<":">>
                \o TwoDigits((seconds \div 1000) % 60) \o <<",">>
                \o ThreeDigits(seconds % 1000)

\* the text with every comma replaced by a full stop
CommasToStops(text) == [k \in 1..Len(text) |-> IF text[k] = "," THEN "." ELSE text[k]]

\* C21: the web exporter's formatVTTTime renders a time as HH:MM:SS.mmm when
\* its hours are above zero and as MM:SS.mmm when they are zero, the seconds
\* field being below 60 in both cases; a time that is a whole number of
\* milliseconds is shown with exactly its seconds and milliseconds.
C21_FormatVTTTime ==
    (exported.format = "vttTime" /\ exported.copy = "web") =>
        LET hours == seconds \div 3600000
            head == (IF hours > 0 THEN TwoDigits(hours) \o <<":">> ELSE <<>>)
                        \o TwoDigits((seconds \div 60000) % 60) \o <<":">>
            field == SubSeq(exported.text, Len(head) + 1, Len(exported.text))
            Digits == {DigitChars[d] : d \in 1..10}
        IN  /\ SubSeq(exported.text, 1, Len(head)) = head
            /\ Len(field) = 6
            /\ field[1] \in {DigitChars[d] : d \in 1..6}
            /\ field[3] = "."
            /\ \A k \in {2, 4, 5, 6} : field[k] \in Digits
            /\ exported.excess = NoExcess =>
                  exported.text = head \o TwoDigits((seconds \div 1000) % 60)
                                      \o <<".">> \o ThreeDigits(seconds % 1000)

\* C22: the CLI's formatVTTTime always has the hours field and gives the CLI's
\* formatSRTTime with the comma replaced by a full stop, for every time; it
\* maps 0 to 00:00:00.000, 65.5 to 00:01:05.500 and 3661.75 to 01:01:01.750.
C22_CliFormatVTTTime ==
    (exported.format = "vttTime" /\ exported.copy = "cli") =>
        /\ exported.text = CommasToStops(cliFormatSRTTime(seconds))
        /\ Len(exported.text) = 12
        /\ SubSeq(exported.text, 1, 3) = TwoDigits(seconds \div 3600000) \o <<":">>
        /\ seconds = 0 =>
              exported.text = <<"0","0",":","0","0",":","0","0",".","0","0","0">>
        /\ seconds = 65500 =>
              exported.text = <<"0","0",":","0","1",":","0","5",".","5","0","0">>
        /\ seconds = 3661750 =>
              exported.text = <<"0","1",":","0","1",":","0","1",".","7","5","0">>

C22_Witness ==
    /\ exported.format = "vttTime"
    /\ exported.copy = "cli"
    /\ seconds = 65500
    /\ exported.text = <<"0","0",":","0","1",":","0","5",".","5","0","0">>

----------------------------------------------------------------------------
(* Properties of chunkAudioFile's decoding context and of empty input *)

\* C23: the audio decoding context that chunkAudioFile opens is closed before
\* the returned promise settles, on every exit path: success, decode failure,
\* size error and read failure.
C23_ContextClosedBeforeSettle ==
    chunkerPc \in {"resolved", "rejected"} => audioContext = "closed"

\* chunkAudioFile has settled for a readable, decodable source of duration zero
\* that does not raise the size error
ZeroDurationSettled ==
    /\ file.readable /\ file.decodable
    /\ file.audio.duration = 0
    /\ chunkerPc \in {"resolved", "rejected"}
    /\ ~SizeError

----------------------------------------------------------------------------
(* Properties of the progress events *)

\* the remote loop of transcribeAudioInChunks is running or has finished
RemoteRun ==
    /\ chunkerPc = "resolved"
    /\ Len(chunks) >= 1
    /\ ~UseLocal(apiKey, mode)
    /\ pc \in {"awaiting", "backoff", "pacing", "done"}

\* C25: on the remote path with N >= 1 segments a progress event is emitted
\* for every segment transition: currentChunk is non-decreasing, runs through
\* 1..N and never exceeds totalChunks = N, each event carries exactly the
\* results recorded when it was emitted, and isComplete is true on exactly one
\* event, the last, which is emitted after all N results are recorded.
C25_ProgressEvents ==
    RemoteRun =>
        LET N == Len(chunks)
        IN  /\ Len(progress) = IF pc = "done" THEN N + 1 ELSE i + 1
            /\ \A j \in 1..Len(progress) :
                  /\ progress[j].totalChunks = N
                  /\ progress[j].currentChunk \in 1..N
                  /\ progress[j].error = NoError
                  /\ j > 1 => progress[j - 1].currentChunk <= progress[j].currentChunk
                  /\ progress[j].isComplete <=> (pc = "done" /\ j = N + 1)
                  /\ j <= N =>
                        /\ progress[j].currentChunk = j
                        /\ progress[j].chunks = SubSeq(chunkResults, 1, j - 1)
            /\ pc = "done" =>
                  /\ Len(chunkResults) = N
                  /\ progress[N + 1].currentChunk = N
                  /\ progress[N + 1].chunks = chunkResults

C25_Witness ==
    /\ RemoteRun
    /\ pc = "done"
    /\ Len(chunks) = 3
    /\ Len(progress) = 4
    /\ progress[2].chunks = <<chunkResults[1]>>
    /\ progress[4].isComplete
    /\ hasError

----------------------------------------------------------------------------
(* Properties of repeated exports *)

\* an export without the time it was generated at
WithoutGenerated(export) ==
    CASE export.format = "txt" -> [export EXCEPT !.generated = 0]
      [] export.format = "json" -> [export EXCEPT !.metadata.generated = 0]
      [] OTHER -> export

\* C26: exporting the same outcome twice in the same format (txt, srt, vtt or
\* json) with the same source file name yields identical content and the same
\* suggested file name, apart from the generation timestamp in txt and json;
\* exporting never modifies the outcome.
C26_ExportTwice ==
    /\ [](exported.format \in TranscriptFormats =>
            exported.filename = BaseFileName(fileName)
                                    \o <<"_transcript.", exported.format>>)
    /\ []((earlier.format \in TranscriptFormats /\ exported.format = earlier.format) =>
            /\ WithoutGenerated(exported) = WithoutGenerated(earlier)
            /\ exported.filename = earlier.filename
            /\ exported.format \in {"srt", "vtt"} => exported = earlier)
    /\ [][outcome' = outcome /\ fileName' = fileName]_vars

C26_Witness ==
    /\ earlier.format = "txt"
    /\ exported.format = "txt"
    /\ exported.generated # earlier.generated
    /\ Len(outcome.chunks) = 2
    /\ outcome.error # NoError
    /\ fileName = <<"a", ".", "b", ".", "m">>
    /\ exported.filename = <<"a", ".", "b", "_transcript.", "txt">>

----------------------------------------------------------------------------
(* Properties of the video conversion *)

\* C27: video extraction fails the whole request whenever no valid finite
\* positive duration can be determined, for the source video or for the
\* extracted audio blob: extractAudioFromVideo rejects, and no decoding and no
\* transcription is started.
C27_InvalidDurationFailsRequest ==
    (/\ page.type = "video"
     /\ converter.settled # "pending"
     /\ \/ InvalidDuration(converter.videoDuration)
        \/ InvalidDuration(converter.audioDuration)) =>
        /\ converter.settled = "rejected"
        /\ pc = "idle"
        /\ chunkerPc = "idle"

----------------------------------------------------------------------------
(* Properties of the YouTube transcriber *)

\* downloadAudio has returned its result
Downloaded == transcriber.audioFile # NoPath

\* C28: after a successful downloadAudio the returned videoResultDir,
\* downloadsDir and audioFile all lie under results/<sanitizedTitle>/ and exist
\* on disk, the second download runs in an existing directory, and
\* saveTranscripts writes its files into the existing
\* results/<sanitizedTitle>/transcripts/ directory, also when the sanitized
\* title is not the video id.
C28_DownloadLayout ==
    LET home == VideoResultDir(sanitizeFileName(transcriber.title))
    IN  /\ transcriber.cwd # NoPath => transcriber.cwd \in disk
        /\ transcriber.pc = "downloading" =>
              (transcriber.cwd \in disk /\ Under(transcriber.cwd, home))
        /\ Downloaded =>
              \A path \in {transcriber.videoResultDir, transcriber.downloadsDir,
                            transcriber.audioFile} :
                  path \in disk /\ Under(path, home)
        /\ \A path \in transcriber.written :
              /\ Under(path, Append(home, <<"transcripts">>))
              /\ Append(home, <<"transcripts">>) \in disk

\* C29: YouTubeTranscriber.transcribeAudio sends no request to the backend
\* when the audio file is larger than 25 MB or when no API key is set; in both
\* cases it fails with an error and processYouTubeUrl writes no transcript
\* files.
C29_NoRequestWithoutKeyOrOverLimit ==
    (Downloaded /\ (~HasKey(transcriber.openaiApiKey) \/ transcriber.audioSize > 25)) =>
        /\ transcriber.requests = 0
        /\ transcriber.pc = "failed"
        /\ transcriber.error \in
              {"OpenAI API key not found. Set OPENAI_API_KEY environment variable.",
               "Audio file is too large (>25MB). Please use chunked transcription."}
        /\ ~HasKey(transcriber.openaiApiKey) =>
              transcriber.error =
                  "OpenAI API key not found. Set OPENAI_API_KEY environment variable."
        /\ transcriber.written = {}
        /\ \A path \in disk :
              Under(path, Append(transcriber.videoResultDir, <<"transcripts">>)) =>
                  path \in UsedDisk \cup {Append(transcriber.videoResultDir, <<"transcripts">>)}

C29_Witness ==
    /\ Downloaded
    /\ HasKey(transcriber.openaiApiKey)
    /\ transcriber.audioSize = 26
    /\ transcriber.pc = "failed"
    /\ transcriber.requests = 0
    /\ transcriber.error =
          "Audio file is too large (>25MB). Please use chunked transcription."

----------------------------------------------------------------------------
(* Properties of the URL collector *)

\* no two collected URLs are equal after query string and fragment are removed
NoDuplicateUrls ==
    \A a, b \in 1..Len(collector.collected) :
        a # b => normalizeUrl(collector.collected[a]) # normalizeUrl(collector.collected[b])

\* the loop has stopped right after a snapshot, with no scroll or click since
StoppedAtSnapshot ==
    /\ collector.pc = "returned"
    /\ collector.moves = collector.scrollCount - 1

----------------------------------------------------------------------------
(* Properties of the segmentation walk *)

\* the least whole number of b that covers a, for b > 0
CeilDiv(a, b) == (a + b - 1) \div b

\* a step of the walk: the cursor was short of the duration, it advances by the
\* effective duration of at least 5 s, and one segment is produced
WalkAdvances ==
    chunks' # chunks =>
        /\ currentTime < file.audio.duration
        /\ chunkDuration >= 5 * TicksPerSecond
        /\ currentTime' = currentTime + chunkDuration
        /\ Len(chunks') = Len(chunks) + 1

\* while walking the cursor is the number of segments times the effective
\* duration, and when the walk is over the cursor has reached the duration
\* with ceil(D / effectiveDuration) segments
WalkCounts ==
    /\ Segmenting => currentTime = Len(chunks) * chunkDuration
    /\ Segmented =>
          /\ currentTime >= file.audio.duration
          /\ Len(chunks) = CeilDiv(file.audio.duration, chunkDuration)

\* C31: the segmentation walk terminates for every finite source duration
\* D >= 0 and every configuration that passes the size check: the cursor starts
\* at 0, advances by the effective duration (>= 5 s) on every step regardless
\* of overlap, stops when the cursor is >= D, and produces exactly
\* ceil(D / effectiveDuration) segments.
C31_WalkTerminates ==
    /\ [][WalkAdvances]_vars
    /\ []WalkCounts
    /\ <>(chunkerPc \in {"resolved", "rejected"})

C31_Witness ==
    /\ chunkerPc = "resolved"
    /\ options.overlapSeconds > 0
    /\ Len(chunks) = 3
    /\ file.audio.duration % chunkDuration # 0
    /\ currentTime > file.audio.duration

\* the samples copied into the segment at position k: from First up to, not
\* including, Past
FirstCopied(k) == chunks[k].blob.firstSample
PastCopied(k) == chunks[k].blob.firstSample + chunks[k].blob.frameCount

\* the time range the segment at position k is cut from
RangeStart(k) == IF CursorOf(k) > options.overlapSeconds
                   THEN CursorOf(k) - options.overlapSeconds ELSE 0
RangeEnd(k) == chunks[k].endTime

\* C32: for consecutive segments i and i+1 the audio copied into them overlaps
\* by at most overlapSeconds (the end of segment i's range minus the start of
\* segment i+1's range is at most overlapSeconds; in samples, which are cut at
\* whole indices, by less than one sample more), and the first segment is
\* never extended before time 0.
C32_OverlapBounded ==
    /\ \A k \in 1..Len(chunks) :
          /\ RangeStart(k) >= 0
          /\ FirstCopied(k) >= 0
          /\ FirstCopied(k) = (RangeStart(k) * file.audio.sampleRate) \div TicksPerSecond
          /\ PastCopied(k) = (RangeEnd(k) * file.audio.sampleRate) \div TicksPerSecond
    /\ \A k \in 1..(Len(chunks) - 1) :
          /\ RangeEnd(k) - RangeStart(k + 1) <= options.overlapSeconds
          /\ (PastCopied(k) - FirstCopied(k + 1)) * TicksPerSecond
                < options.overlapSeconds * file.audio.sampleRate + TicksPerSecond
    /\ Len(chunks) >= 1 => FirstCopied(1) = 0

C32_Witness ==
    /\ Segmented
    /\ Len(chunks) >= 3
    /\ options.overlapSeconds > 0
    /\ RangeEnd(2) - RangeStart(3) = options.overlapSeconds
    /\ PastCopied(1) > FirstCopied(2)

----------------------------------------------------------------------------
(* Properties of the pacing delay *)

\* C33: a fixed 500 ms pacing delay occurs exactly N-1 times in a run over N
\* segments: once after the result of segment i is recorded and before segment
\* i+1 is submitted, for each i < N-1, and never after the last segment nor
\* before the first.
C33_PacingBetweenSegments ==
    /\ RemoteRun =>
          LET N == Len(chunks)
          IN  /\ pauses = IF pc = "pacing" THEN i + 1 ELSE i
              /\ pauses <= N - 1
              /\ pc = "pacing" =>
                    /\ Len(chunkResults) = i + 1
                    /\ i + 1 < N
                    /\ active = NoRequest
              /\ pc \in {"awaiting", "backoff"} => Len(chunkResults) = pauses
              /\ pc = "done" => (pauses = N - 1 /\ Len(chunkResults) = N)
    /\ ~RemoteRun => pauses = 0

C33_Witness ==
    /\ RemoteRun
    /\ pc = "done"
    /\ Len(chunks) = 3
    /\ pauses = 2
    /\ hasError

----------------------------------------------------------------------------
(* Properties of segments over the size limit *)

\* the blob of the segment at position k is larger than maxChunkSize
Oversized(k) == chunks[k].blob.size > MaxChunkSize(options)

\* C34: a segment whose encoded blob turns out larger than maxChunkSize does
\* not fail the pipeline: it is only warned about, is still added to the
\* segment list with its index and times, and is still submitted to the
\* backend like any other segment.
C34_OversizedSegmentKept ==
    /\ Segmenting =>
          /\ currentTime = Len(chunks) * chunkDuration
          /\ \A k \in 1..Len(chunks) :
                chunks[k].blob.size =
                    44 + chunks[k].blob.frameCount * file.audio.numberOfChannels * 2
    /\ (chunkerPc \in {"closing", "rejected"} /\ chunkError # NoError) => chunks = <<>>
    /\ \A k \in 1..Len(chunks) :
          Oversized(k) =>
              /\ chunkError = NoError
              /\ pc # "failed"
              /\ chunks[k].index = k - 1
              /\ chunks[k].startTime = CursorOf(k)
              /\ chunks[k].endTime =
                    IF CursorOf(k) + chunkDuration < file.audio.duration
                      THEN CursorOf(k) + chunkDuration ELSE file.audio.duration
              /\ (RemoteRun /\ pc = "awaiting" /\ i = k - 1) => active.chunk = k - 1
              /\ (RemoteRun /\ (pc = "done" \/ i > k - 1)) =>
                    (Len(chunkResults) >= k /\ chunkResults[k].chunkIndex = k - 1)

C34_Witness ==
    /\ RemoteRun
    /\ pc = "done"
    /\ Len(chunks) >= 2
    /\ Oversized(2)
    /\ ~Oversized(1)
    /\ chunkResults[2].error = NoError
    /\ chunkResults[2].text # <<>>

\* the segments that hold the source sample s
Holders(s) == {k \in 1..Len(chunks) : FirstCopied(k) <= s /\ s < PastCopied(k)}

\* floor(D x sampleRate)
SourceSamples == (file.audio.duration * file.audio.sampleRate) \div TicksPerSecond

\* the sources short enough to look at sample by sample
SmallSource == SourceSamples <= MaxSampleRate * MaxDurationTicks

\* C35: every source sample index in [0, floor(D x sampleRate)) is copied into
\* at least one segment (segments leave no gap between them), and with
\* overlapSeconds = 0 into exactly one segment.
C35_EverySampleCopied ==
    Segmented =>
        /\ Len(chunks) >= 1 =>
              (FirstCopied(1) = 0 /\ PastCopied(Len(chunks)) = SourceSamples)
        /\ Len(chunks) = 0 => SourceSamples = 0
        /\ \A k \in 1..Len(chunks) : PastCopied(k) <= SourceSamples
        /\ \A k \in 1..(Len(chunks) - 1) :
              /\ FirstCopied(k + 1) <= PastCopied(k)
              /\ options.overlapSeconds = 0 => FirstCopied(k + 1) = PastCopied(k)
        /\ SmallSource =>
              \A s \in 0..(SourceSamples - 1) :
                  /\ Holders(s) # {}
                  /\ options.overlapSeconds = 0 => Cardinality(Holders(s)) = 1

C35_Witness ==
    /\ Segmented
    /\ SmallSource
    /\ options.overlapSeconds = 0
    /\ Len(chunks) = 3
    /\ SourceSamples > 20
    /\ file.audio.duration % chunkDuration # 0
    /\ Cardinality(Holders(SourceSamples - 1)) = 1

----------------------------------------------------------------------------
(* Properties of the placeholder path *)

\* transcribeAudioLocallyInChunks is running or has returned
LocalRun ==
    /\ chunkerPc = "resolved"
    /\ Len(chunks) >= 1
    /\ UseLocal(apiKey, mode)
    /\ pc \in {"simulating", "done"}

\* C36: on the placeholder (no API key) chunked path no progress event with
\* isComplete = true is emitted before the last segment's placeholder result
\* has been produced, also when there is exactly one segment.
C36_CompleteOnlyAfterLastResult ==
    LocalRun =>
        \A j \in 1..Len(progress) :
            progress[j].isComplete => Len(transcribedChunks) = Len(chunks)

----------------------------------------------------------------------------
(* Properties of transcribeAudio *)

\* a result has no error, or an error and no text
WellFormed(res) == res.error = NoError \/ res.text = <<>>

\* this step is the return of a transcribeAudio call to the caller awaiting it
Returns == pc \in {"awaiting", "awaitingDirect"} /\ pc' # pc

\* one step seen from the caller of transcribeAudio
OneResultPerCall ==
    /\ Returns =>
          /\ active' = NoRequest
          /\ WellFormed(result')
          /\ stale' >= stale
          /\ stale' > stale =>
                (stale' = stale + 1 /\ result' = [text |-> <<>>, error |-> TimeoutMessage])
          /\ pc = "awaitingDirect" => pc' = "returned"
          /\ pc = "awaiting" => pc' \in {"backoff", "pacing", "done"}
    /\ (pc \in {"awaiting", "awaitingDirect"} /\ ~Returns) => result' = result
    /\ stale' < stale =>
          UNCHANGED <<pc, i, retries, result, chunkResults, hasError, active, outcome,
                      progress>>
    /\ pc = "returned" => (pc' = pc /\ result' = result)

\* C37: transcribeAudio never rejects: every call resolves with exactly one
\* result that has either no error or an error with empty text; if the
\* 60-second timer fires before the backend responds the result is the timeout
\* error, and a backend response arriving afterwards cannot change the result
\* already returned nor be recorded for any segment.
C37_TranscribeAudioResolvesOnce ==
    /\ [][OneResultPerCall]_vars
    /\ [](/\ pc = "returned" => WellFormed(result)
          /\ \A k \in 1..Len(chunkResults) : WellFormed(chunkResults[k])
          /\ pc \notin {"awaiting", "awaitingDirect"} => active = NoRequest)

C37_Witness ==
    /\ pc = "returned"
    /\ result = [text |-> <<>>, error |-> TimeoutMessage]
    /\ stale = 0
    /\ apiKey = ValidKey

----------------------------------------------------------------------------
(* Properties of the page *)

\* the handleFileAccepted runs that have not ended
RunsInProgress ==
    {r \in 1..Len(homePage.runs) :
        homePage.runs[r].pc \in {"converting", "single", "chunked"}}

\* one of the three flags is set
Busy == homePage.isConverting \/ homePage.isProcessing \/ homePage.isChunkedProcessing

\* C38: in the page at most one handleFileAccepted run (video conversion,
\* single transcription or chunked transcription) is in progress at any time:
\* while isConverting, isProcessing or isChunkedProcessing is true the drop
\* zone accepts no further file; and when a run ends by any path all three
\* flags are false again.
C38_OneRunAtATime ==
    /\ Cardinality(RunsInProgress) <= 1
    /\ Busy => DropZoneDisabled(homePage)
    /\ RunsInProgress = {} => ~Busy

----------------------------------------------------------------------------
(* Properties of the command-line chunked transcriber *)

\* the chunks are listed
Listed == splitter.pc \in {"transcribing", "done"}

\* the chunks lie end to end from 0 to totalDuration, 600 s apart
Tiled ==
    LET list == splitter.chunks
        n == Len(list)
    IN  /\ n = splitter.numChunks
        /\ (n - 1) * ChunkMillis < splitter.totalDuration \/ n = 0
        /\ splitter.totalDuration <= n * ChunkMillis
        /\ \A k \in 1..n :
              /\ list[k].index = k - 1
              /\ list[k].startTime = (k - 1) * ChunkMillis
              /\ list[k].startTime < list[k].endTime
              /\ list[k].endTime =
                    IF k < n THEN list[k + 1].startTime ELSE splitter.totalDuration

\* entry k is the entry of chunk k, and its segments are the segments of
\* the answer to chunk k moved by the start of chunk k, once
EntryOfChunk(k) ==
    LET entry == splitter.transcriptions[k]
        answer == splitter.responses[k]
        chunk == splitter.chunks[k]
    IN  /\ entry.chunkIndex = k - 1
        /\ entry.startTime = chunk.startTime
        /\ entry.endTime = chunk.endTime
        /\ Len(entry.segments) = Len(answer.segments)
        /\ \A j \in 1..Len(answer.segments) :
              /\ entry.segments[j].start - answer.segments[j].start = chunk.startTime
              /\ entry.segments[j].end - answer.segments[j].end = chunk.startTime

\* C39: in the command-line chunked transcriber the chunks tile
\* [0, totalDuration] without gap or overlap (chunk i from 600 i to
\* min(600 (i + 1), totalDuration), ceil(totalDuration / 600) of them); every
\* segment the backend returns is moved by the start of its chunk exactly
\* once; a chunk whose transcription fails leaves one entry, in chunk order,
\* and the remaining chunks are still transcribed, so the list of entries has
\* numChunks entries at the end.
C39_ChunksTileAndEveryChunkHasAnEntry ==
    Listed =>
      /\ Tiled
      /\ Len(splitter.transcriptions) = splitter.i
      /\ Len(splitter.responses) = splitter.i
      /\ \A k \in 1..Len(splitter.transcriptions) : EntryOfChunk(k)
      /\ splitter.pc = "done" <=> splitter.i = splitter.numChunks

\* three chunks, the last one short; the first failed, the second and the
\* third were transcribed with segments
C39_Witness ==
    /\ splitter.pc = "done"
    /\ splitter.numChunks = MaxSplitChunks
    /\ splitter.chunks[MaxSplitChunks].endTime
          < splitter.chunks[MaxSplitChunks].startTime + ChunkMillis
    /\ splitter.responses[1] = NoResponse
    /\ \A k \in 2..MaxSplitChunks : Len(splitter.transcriptions[k].segments) = 2

----------------------------------------------------------------------------
(* Properties of the collector's login loop *)

====
